---- MODULE Spec2Model ----
(***************************************************************************)
(* Model of the allocation capture controllers of memory-tracker:          *)
(*   ext/memory/profiler/capture.c  (queued callbacks, postponed job)      *)
(*   ext/memory/profiler/allocations.c (per-class record)                  *)
(*   ext/memory/tracker/capture.c   (callbacks directly in the hook)       *)
(* The hosting runtime (object allocation, reclamation, the postponed job  *)
(* scheduler, the user callbacks) is the environment of the model.         *)
(***************************************************************************)
EXTENDS Integers, Sequences, FiniteSets, TLC

\* ------------------------------------------------------------------ bounds
\* Steps of the environment in one behaviour: API calls (start, stop, track, untrack,
\* clear) plus objects the host allocates or reclaims. The steps of a drain (the
\* postponed job, callbacks returning or raising) are not counted.
MaxSteps == 5
MaxTableOps == 5
MaxCompactions == 2
MaxFailures == 1
MaxStrong == 2
MaxApiOps == 4
InitialCapacity == 2

Classes == {"T1", "T2"}
Objects == {"o1", "o2"}
Callbacks == {"cb1", "cb2"}
States == {"s1", "s2"}
\* Qnil: no callback / no state.
Qnil == "nil"
\* A free object slot of the host heap.
NoClass == "none"
\* size_t arithmetic is modular; the modulus is scaled to the checker's integers.
SizeMod == 2 ^ 30

VARIABLES
    ext,             \* which extension's Capture is under test: "profiler" | "tracker"
    obj_class,       \* host heap: class of each live object, NoClass when not live
    hooks,           \* event hooks installed for this capture
    nsteps,          \* API calls and host allocations/reclamations so far (ghost)
    tracked_classes, \* class => record handle (0: no entry)
    records,         \* the Allocations records ever created; index = handle
    running,         \* capture->running (profiler only)
    enabled,         \* capture->enabled
    newobj_queue,    \* capture->newobj_queue
    freeobj_queue,   \* capture->freeobj_queue
    job_pending,     \* postponed job triggered and not yet run
    stack,           \* active calls of process_queues, innermost last
    log,             \* ghost: every invocation of a user callback, in order
    observed,        \* ghost: hook events delivered and drains started, in order
    ret              \* result of the last API call

\* The object table is exercised on its own (ext = "table").
VARIABLES
    table,           \* the Memory_Profiler_Object_Table under test
    shadow,          \* address => what its user last wrote for it (ghost)
    tret             \* the last operation on the table and its ordinal (ghost)

cvars == <<ext, obj_class, hooks, nsteps, tracked_classes, records, running, enabled,
           newobj_queue, freeobj_queue, job_pending, stack, log, observed, ret>>

tvars == <<table, shadow, tret>>

vars == <<cvars, tvars>>

\* ------------------------------------------------------------------ helpers
NoStates == [o \in Objects |-> Qnil]

\* The last API call: its name, arguments (NoClass/Qnil when it takes none), ordinal
\* among the environment's steps, whether it has returned ("returned"), is still
\* running ("active") or was left by an exception ("raised"), and what it returned:
\* ok is Qtrue/Qfalse, handle the Allocations handle (0: none, self or nil).
Ret(op, klass, callback, n, state, ok, handle) ==
    [op |-> op, klass |-> klass, callback |-> callback, n |-> n, state |-> state,
     ok |-> ok, handle |-> handle]

Top == stack[Len(stack)]

InCallback == Len(stack) > 0 /\ Top.incb

\* User code at top level (no drain active) may call the API.
AtTopLevel == Len(stack) = 0

SizeAdd(a, b) == (a + b) % SizeMod

SizeSub(a, b) == (a - b + SizeMod) % SizeMod

\* A queue element; one shape serves both queues. In a freeobj item `object` is
\* ghost (the C item holds klass, allocations and state only); `seq` is the ghost
\* ordinal of the hook event that enqueued the item.
Item(klass, allocations, object, state, seq) ==
    [klass |-> klass, allocations |-> allocations, object |-> object,
     state |-> state, seq |-> seq]

NoItem == Item(NoClass, 0, "none", Qnil, 0)

\* Mutant: the record created on a first allocation does not count that allocation.
Mutant_FirstSeenRecord_uncounted ==
    [callback |-> Qnil, new_count |-> 0, free_count |-> 0,
     states_alloc |-> FALSE, object_states |-> NoStates, born |-> Len(observed),
     live |-> TRUE, cleared |-> FALSE]

\* A record as newobj_handler creates it on the first allocation of a class. Ghost:
\* `born` is the number of hook events delivered before the record was created or
\* last cleared. `live`: the memory of the record has not been released; `cleared`:
\* clear() has reset the record.
FirstSeenRecord ==
    [callback |-> Qnil, new_count |-> 1, free_count |-> 0,
     states_alloc |-> FALSE, object_states |-> NoStates, born |-> Len(observed),
     live |-> TRUE, cleared |-> FALSE]

\* A record as track() creates it.
TrackedRecord(callback) ==
    [callback |-> callback, new_count |-> 0, free_count |-> 0,
     states_alloc |-> FALSE, object_states |-> NoStates, born |-> Len(observed),
     live |-> TRUE, cleared |-> FALSE]

\* One call of a user callback, as the ghost log keeps it; `at` is the number of
\* environment steps taken before the call.
Call(event, klass, payload, item, cb, ctx, result) ==
    [event |-> event, klass |-> klass, payload |-> payload, object |-> item.object,
     seq |-> item.seq, cb |-> cb, ctx |-> ctx, result |-> result, at |-> nsteps]

\* The callback registered for a class, Qnil when there is none.
CallbackOf(klass) ==
    IF tracked_classes[klass] # 0 THEN records[tracked_classes[klass]].callback ELSE Qnil

\* One delivered hook event, as the ghost trace keeps it: `callback` is the callback
\* registered for the class when the hook ran; `accepted`: the controller was
\* enabled, the class had a callback and the queue had room.
Obs(event, klass, object, seq, callback, accepted) ==
    [event |-> event, klass |-> klass, object |-> object, seq |-> seq,
     callback |-> callback, accepted |-> accepted]

\* The start of one run of process_queues, in the same trace.
DrainStarted == Obs("drain", NoClass, "none", 0, Qnil, FALSE)

Accepted(klass, push_ok) ==
    /\ CallbackOf(klass) # Qnil
    /\ enabled = 1
    /\ push_ok

\* ------------------------------------------------------------------ object table
\* size_t words are carried as eight bytes, least significant first, so that the
\* 64-bit products of hash_object wrap as they do in C.
Bytes(n) ==
    [i \in 1..8 |-> IF i = 1 THEN n % 256
                    ELSE IF i = 2 THEN (n \div 256) % 256
                    ELSE IF i = 3 THEN (n \div 65536) % 256
                    ELSE IF i = 4 THEN (n \div 16777216) % 256
                    ELSE 0]

\* x >> 3, x >> 13 and x >> 16
Shr3(x) == [i \in 1..8 |-> (x[i] \div 8) + (IF i < 8 THEN (x[i + 1] % 8) * 32 ELSE 0)]

Shr8(x) == [i \in 1..8 |-> IF i < 8 THEN x[i + 1] ELSE 0]

Shr13(x) ==
    LET s == Shr8(x)
    IN [i \in 1..8 |-> (s[i] \div 32) + (IF i < 8 THEN (s[i + 1] % 32) * 8 ELSE 0)]

Shr16(x) == Shr8(Shr8(x))

RECURSIVE XorBits(_, _, _)
XorBits(a, b, n) ==
    IF n = 0 THEN 0
    ELSE (((a % 2) + (b % 2)) % 2) + 2 * XorBits(a \div 2, b \div 2, n - 1)

\* x ^ y
Xor(x, y) == [i \in 1..8 |-> XorBits(x[i], y[i], 8)]

RECURSIVE MulColumn(_, _, _, _)
MulColumn(x, y, k, i) ==
    IF i > k THEN 0 ELSE x[i] * y[k + 1 - i] + MulColumn(x, y, k, i + 1)

RECURSIVE MulFrom(_, _, _, _)
MulFrom(x, y, k, carry) ==
    IF k > 8 THEN << >>
    ELSE LET t == MulColumn(x, y, k, 1) + carry
         IN <<t % 256>> \o MulFrom(x, y, k + 1, t \div 256)

\* x * y, truncated to 64 bits
Mul(x, y) == MulFrom(x, y, 1, 0)

RECURSIVE ModFrom(_, _, _, _)
ModFrom(x, capacity, i, r) ==
    IF i = 0 THEN r ELSE ModFrom(x, capacity, i - 1, (r * 256 + x[i]) % capacity)

\* x % capacity
Mod(x, capacity) == ModFrom(x, capacity, 8, 0)

\* 2654435761, 0x85ebca6b and 0xc2b2ae35
Golden == <<177, 121, 55, 158, 0, 0, 0, 0>>
Mix1 == <<107, 202, 235, 133, 0, 0, 0, 0>>
Mix2 == <<53, 174, 178, 194, 0, 0, 0, 0>>

\* Addresses of heap objects that are used as keys (8-byte aligned slots), and
\* of the objects that metadata fields refer to.
Addrs == {40, 160, 200}
MetaAddrs == {1040, 1080, 1120}

\* The mixed 64-bit hash of an address, before the reduction modulo the capacity:
\* one set per assignment to `hash` in hash_object, holding the value of `hash`
\* after that assignment.
hash_mix(object) ==
    LET shifted == {Shr3(h) : h \in {Bytes(object)}}
        golden == {Mul(h, Golden) : h \in shifted}
        mixed16 == {Xor(h, Shr16(h)) : h \in golden}
        times1 == {Mul(h, Mix1) : h \in mixed16}
        mixed13 == {Xor(h, Shr13(h)) : h \in times1}
        times2 == {Mul(h, Mix2) : h \in mixed13}
    IN CHOOSE hash \in {Xor(h, Shr16(h)) : h \in times2} : TRUE

\* hash_mix of every key address, tabulated once.
hash_table == [object \in Addrs |-> hash_mix(object)] @@ << >>

\* The capacities a table can have: every resize doubles the capacity, and an
\* operation resizes at most once.
Capacities == {InitialCapacity * 2 ^ k : k \in 0..MaxTableOps}

\* hash % capacity of every key address and capacity, tabulated once.
slot_table == [object \in Addrs, capacity \in Capacities |-> Mod(hash_table[object], capacity)]

hash_object(object, capacity) == slot_table[object, capacity]

TOMBSTONE == 4
INITIAL_CAPACITY == 1024
MAX_PROBE_LENGTH == 10000
NoTombstone == -1

EmptyEntry == [object |-> 0, klass |-> 0, data |-> 0]

Occupied(entry) == entry.object # 0 /\ entry.object # TOMBSTONE

Memory_Profiler_Object_Table_new(initial_capacity) ==
    LET capacity == IF initial_capacity > 0 THEN initial_capacity ELSE INITIAL_CAPACITY
    IN [capacity |-> capacity, count |-> 0, tombstones |-> 0, strong |-> 0,
        entries |-> [i \in 0..(capacity - 1) |-> EmptyEntry], heap_ok |-> TRUE]

\* Linear probing for lookup, delete, resize and compact: the slot of the object,
\* or the first empty slot, or the slot where the probe gave up. `probes` is the
\* number of slots whose content the loop read.
RECURSIVE find_entry_from(_, _, _, _, _, _)
\* A probe that goes round the array twice before it gives up.
Mutant_find_entry_from_two_laps(entries, capacity, object, index, start, probe_count) ==
    IF probe_count + 1 > MAX_PROBE_LENGTH
    THEN [index |-> index, found |-> FALSE, probes |-> probe_count]
    ELSE IF entries[index].object = 0
    THEN [index |-> index, found |-> FALSE, probes |-> probe_count + 1]
    ELSE IF entries[index].object # TOMBSTONE /\ entries[index].object = object
    THEN [index |-> index, found |-> TRUE, probes |-> probe_count + 1]
    ELSE IF probe_count + 1 < 2 * capacity
    THEN find_entry_from(entries, capacity, object, (index + 1) % capacity, start,
                         probe_count + 1)
    ELSE [index |-> start, found |-> FALSE, probes |-> probe_count + 1]

find_entry_from(entries, capacity, object, index, start, probe_count) ==
    IF probe_count + 1 > MAX_PROBE_LENGTH
    THEN [index |-> index, found |-> FALSE, probes |-> probe_count]
    ELSE IF entries[index].object = 0
    THEN [index |-> index, found |-> FALSE, probes |-> probe_count + 1]
    ELSE IF entries[index].object # TOMBSTONE /\ entries[index].object = object
    THEN [index |-> index, found |-> TRUE, probes |-> probe_count + 1]
    ELSE IF (index + 1) % capacity # start
    THEN find_entry_from(entries, capacity, object, (index + 1) % capacity, start,
                         probe_count + 1)
    ELSE [index |-> start, found |-> FALSE, probes |-> probe_count + 1]

find_entry(entries, capacity, object) ==
    find_entry_from(entries, capacity, object, hash_object(object, capacity),
                    hash_object(object, capacity), 0)

\* Linear probing for insert: the slot of the object, or the first tombstone seen
\* before the first empty slot, or that empty slot. `probes` is the number of
\* slots whose content the loop read.
RECURSIVE find_insert_slot_from(_, _, _, _, _, _)
\* A probe for insert that takes the first tombstone it meets.
Mutant_find_insert_slot_from_takes_tombstone(t, object, index, start, first_tombstone, probe_count) ==
    IF probe_count + 1 > MAX_PROBE_LENGTH
    THEN [index |-> index, found |-> FALSE, probes |-> probe_count]
    ELSE IF t.entries[index].object = 0 \/ t.entries[index].object = TOMBSTONE
    THEN [index |-> index, found |-> FALSE, probes |-> probe_count + 1]
    ELSE IF t.entries[index].object = object
    THEN [index |-> index, found |-> TRUE, probes |-> probe_count + 1]
    ELSE IF (index + 1) % t.capacity # start
    THEN find_insert_slot_from(t, object, (index + 1) % t.capacity, start,
                               first_tombstone, probe_count + 1)
    ELSE [index |-> start, found |-> FALSE, probes |-> probe_count + 1]

find_insert_slot_from(t, object, index, start, first_tombstone, probe_count) ==
    LET give_up == IF first_tombstone # NoTombstone THEN first_tombstone ELSE index
    IN IF probe_count + 1 > MAX_PROBE_LENGTH
       THEN [index |-> give_up, found |-> FALSE, probes |-> probe_count]
       ELSE IF t.entries[index].object = 0
       THEN [index |-> give_up, found |-> FALSE, probes |-> probe_count + 1]
       ELSE IF t.entries[index].object # TOMBSTONE /\ t.entries[index].object = object
       THEN [index |-> index, found |-> TRUE, probes |-> probe_count + 1]
       ELSE LET ft == IF t.entries[index].object = TOMBSTONE
                         /\ first_tombstone = NoTombstone
                      THEN index ELSE first_tombstone
            IN IF (index + 1) % t.capacity # start
               THEN find_insert_slot_from(t, object, (index + 1) % t.capacity, start,
                                          ft, probe_count + 1)
               ELSE [index |-> IF ft # NoTombstone THEN ft ELSE start,
                     found |-> FALSE, probes |-> probe_count + 1]

find_insert_slot(t, object) ==
    find_insert_slot_from(t, object, hash_object(object, t.capacity),
                          hash_object(object, t.capacity), NoTombstone, 0)

\* The rehash loop of resize_table: old slots i, i + 1, ... are copied into t.
RECURSIVE rehash_from(_, _, _, _)
rehash_from(t, old_entries, old_capacity, i) ==
    IF i >= old_capacity THEN t
    ELSE IF Occupied(old_entries[i])
    THEN LET new_index == find_entry(t.entries, t.capacity, old_entries[i].object).index
         IN rehash_from([t EXCEPT !.entries[new_index] = old_entries[i],
                                  !.count = SizeAdd(t.count, 1)],
                        old_entries, old_capacity, i + 1)
    ELSE rehash_from(t, old_entries, old_capacity, i + 1)

\* count and tombstones are zeroed before calloc is tried, and only capacity and
\* entries are put back when it fails.
resize_table(t, calloc_ok) ==
    IF ~calloc_ok
    THEN [t EXCEPT !.count = 0, !.tombstones = 0]
    ELSE rehash_from([t EXCEPT !.capacity = t.capacity * 2, !.count = 0,
                               !.tombstones = 0,
                               !.entries = [i \in 0..(t.capacity * 2 - 1) |-> EmptyEntry]],
                     t.entries, t.capacity, 0)

\* (double)(count + tombstones) / capacity > LOAD_FACTOR, with LOAD_FACTOR = 0.50
LoadExceeded(t) == 2 * SizeAdd(t.count, t.tombstones) > t.capacity

\* An insert without the load test: the table is never resized.
Mutant_insert_without_resize(t, object, calloc_ok) ==
    LET slot == find_insert_slot(t, object)
        index == slot.index
    IN [index |-> index,
        found |-> slot.found,
        probes |-> slot.probes,
        table |->
          IF ~slot.found
          THEN [t EXCEPT !.tombstones = IF t.entries[index].object = TOMBSTONE
                                        THEN SizeSub(t.tombstones, 1)
                                        ELSE t.tombstones,
                         !.count = SizeAdd(t.count, 1),
                         !.entries[index] = [object |-> object, klass |-> 0, data |-> 0]]
          ELSE [t EXCEPT !.entries[index].object = object]]

\* The table after insert, and the slot whose address insert returns.
Memory_Profiler_Object_Table_insert(t, object, calloc_ok) ==
    LET r == IF LoadExceeded(t) THEN resize_table(t, calloc_ok) ELSE t
        slot == find_insert_slot(r, object)
        index == slot.index
    IN [index |-> index,
        found |-> slot.found,
        probes |-> slot.probes,
        table |->
          IF ~slot.found
          THEN [r EXCEPT !.tombstones = IF r.entries[index].object = TOMBSTONE
                                        THEN SizeSub(r.tombstones, 1)
                                        ELSE r.tombstones,
                         !.count = SizeAdd(r.count, 1),
                         !.entries[index] = [object |-> object, klass |-> 0, data |-> 0]]
          ELSE [r EXCEPT !.entries[index].object = object]]

\* The slot of the object's entry, or -1 for NULL.
Memory_Profiler_Object_Table_lookup(t, object) ==
    LET slot == find_entry(t.entries, t.capacity, object)
    IN IF slot.found THEN slot.index ELSE -1

Memory_Profiler_Object_Table_delete(t, object) ==
    LET slot == find_entry(t.entries, t.capacity, object)
    IN IF ~slot.found THEN t
       ELSE [t EXCEPT !.entries[slot.index] = [object |-> TOMBSTONE, klass |-> 0, data |-> 0],
                      !.count = SizeSub(t.count, 1),
                      !.tombstones = SizeAdd(t.tombstones, 1)]

\* rb_gc_location: the new address of a moved object; any other value is itself.
rb_gc_location(loc, value) == IF value \in DOMAIN loc THEN loc[value] ELSE value

\* The occupied entries of slots i, i + 1, ... in slot order, with every handle
\* replaced by its new location.
RECURSIVE collect_from(_, _, _)
collect_from(t, loc, i) ==
    IF i >= t.capacity THEN << >>
    ELSE IF Occupied(t.entries[i])
    THEN <<[object |-> rb_gc_location(loc, t.entries[i].object),
            klass |-> rb_gc_location(loc, t.entries[i].klass),
            data |-> rb_gc_location(loc, t.entries[i].data)]>>
         \o collect_from(t, loc, i + 1)
    ELSE collect_from(t, loc, i + 1)

\* The reinsertion loop of compact.
RECURSIVE reinsert_from(_, _, _)
reinsert_from(t, temp_entries, i) ==
    IF i > Len(temp_entries) THEN t
    ELSE LET index == find_entry(t.entries, t.capacity, temp_entries[i].object).index
         IN reinsert_from([t EXCEPT !.entries[index] = temp_entries[i],
                                    !.count = SizeAdd(t.count, 1)],
                          temp_entries, i + 1)

\* compact() with the collector's relocation `loc`. The scratch buffer has room for
\* `count` entries; when more slots are occupied than `count` says, the copy writes
\* past its end and `overrun_ok` chooses between the two outcomes of that
\* undefined behaviour that are told apart here: the heap is damaged, or the
\* allocation happened to be large enough.
Memory_Profiler_Object_Table_compact(t, loc, malloc_ok, overrun_ok) ==
    IF t.count = 0 THEN t
    ELSE IF ~\E i \in 0..(t.capacity - 1) :
               /\ Occupied(t.entries[i])
               /\ rb_gc_location(loc, t.entries[i].object) # t.entries[i].object
    THEN [t EXCEPT !.entries =
            [i \in 0..(t.capacity - 1) |->
               IF Occupied(t.entries[i])
               THEN [t.entries[i] EXCEPT !.klass = rb_gc_location(loc, t.entries[i].klass),
                                         !.data = rb_gc_location(loc, t.entries[i].data)]
               ELSE t.entries[i]]]
    ELSE IF ~malloc_ok THEN t
    ELSE LET temp_entries == collect_from(t, loc, 0)
         IN IF Len(temp_entries) > t.count /\ ~overrun_ok
            THEN [t EXCEPT !.heap_ok = FALSE]
            ELSE reinsert_from([t EXCEPT !.count = 0, !.tombstones = 0,
                                         !.entries = [i \in 0..(t.capacity - 1) |-> EmptyEntry]],
                               temp_entries, 1)

\* delete_entry(entry) for the entry pointer entries + index: a pointer outside the
\* array gives an index that is not below the capacity.
Memory_Profiler_Object_Table_delete_entry(t, index) ==
    IF index \notin 0..(t.capacity - 1) THEN t
    ELSE IF t.entries[index].object = 0 \/ t.entries[index].object = TOMBSTONE THEN t
    ELSE [t EXCEPT !.entries[index] = [object |-> TOMBSTONE, klass |-> 0, data |-> 0],
                   !.count = SizeSub(t.count, 1),
                   !.tombstones = SizeAdd(t.tombstones, 1)]

\* A mark() that reports the keys whatever the strong counter is.
Mutant_mark_reports_keys(t) ==
    UNION {{t.entries[i].object}
           \cup (IF t.entries[i].klass # 0 THEN {t.entries[i].klass} ELSE {})
           \cup (IF t.entries[i].data # 0 THEN {t.entries[i].data} ELSE {}) :
             i \in {j \in 0..(t.capacity - 1) :
                      t.entries[j].object # 0 /\ t.entries[j].object # TOMBSTONE}}

\* mark(): the handles passed to rb_gc_mark_movable.
Memory_Profiler_Object_Table_mark(t) ==
    UNION {(IF t.strong > 0 THEN {t.entries[i].object} ELSE {})
           \cup (IF t.entries[i].klass # 0 THEN {t.entries[i].klass} ELSE {})
           \cup (IF t.entries[i].data # 0 THEN {t.entries[i].data} ELSE {}) :
             i \in {j \in 0..(t.capacity - 1) :
                      t.entries[j].object # 0 /\ t.entries[j].object # TOMBSTONE}}

Memory_Profiler_Object_Table_increment_strong(t) == [t EXCEPT !.strong = t.strong + 1]

\* A decrement without the test for zero.
Mutant_decrement_strong_unclamped(t) == [t EXCEPT !.strong = t.strong - 1]

Memory_Profiler_Object_Table_decrement_strong(t) ==
    IF t.strong > 0 THEN [t EXCEPT !.strong = t.strong - 1] ELSE t

\* ---------------------------------------------------------- users of the table
\* What the caller may write into the entry that insert returns.
Fills ==
    {[keep |-> TRUE, klass |-> 0, data |-> 0],
     [keep |-> FALSE, klass |-> 1040, data |-> 1080],
     [keep |-> FALSE, klass |-> 1080, data |-> 1040]}

NoEntry == [present |-> FALSE, klass |-> 0, data |-> 0]

\* The last operation on the table (for compact, with the relocation the collector
\* reported), the operation before it, and the number of operations, of compact()
\* calls, of failed allocations and of failed resize allocations so far. `probes` is the number of slots the
\* operation's own probe read, `marked` the handles that mark() reported.
TRet(op, object, index, found, alloc_ok, loc) ==
    [op |-> op, object |-> object, index |-> index, found |-> found, n |-> tret.n + 1,
     probes |-> 0, marked |-> {},
     loc |-> loc, prev_op |-> tret.op, prev_object |-> tret.object,
     compactions |-> tret.compactions + (IF op \in {"compact", "compact_moved"} THEN 1 ELSE 0),
     failures |-> tret.failures + (IF alloc_ok THEN 0 ELSE 1),
     resize_failures |-> tret.resize_failures + (IF op = "insert" /\ ~alloc_ok THEN 1 ELSE 0)]

\* The objects the caller has inserted and not deleted since.
Live == {a \in Addrs : shadow[a].present}

\* insert(object), after which the caller fills klass and data of the returned
\* entry, or leaves the entry as insert returned it (fill.keep).
TableInsert(object, fill, calloc_ok) ==
    /\ ext = "table"
    /\ tret.n < MaxTableOps
    /\ table.heap_ok
    /\ ~calloc_ok => LoadExceeded(table)
    /\ ~calloc_ok => tret.failures < MaxFailures
    /\ LET res == Memory_Profiler_Object_Table_insert(table, object, calloc_ok)
           entry == res.table.entries[res.index]
           filled == IF fill.keep THEN entry
                     ELSE [entry EXCEPT !.klass = fill.klass, !.data = fill.data]
       IN /\ table' = [res.table EXCEPT !.entries[res.index] = filled]
          /\ shadow' = [shadow EXCEPT ![object] =
                          IF fill.keep
                          THEN IF shadow[object].present THEN shadow[object]
                               ELSE [present |-> TRUE, klass |-> 0, data |-> 0]
                          ELSE [present |-> TRUE, klass |-> fill.klass, data |-> fill.data]]
          /\ tret' = [TRet("insert", object, res.index, res.found, calloc_ok, << >>)
                        EXCEPT !.probes = res.probes]
    /\ UNCHANGED cvars

TableDelete(object) ==
    /\ ext = "table"
    /\ tret.n < MaxTableOps
    /\ table.heap_ok
    /\ table' = Memory_Profiler_Object_Table_delete(table, object)
    /\ shadow' = [shadow EXCEPT ![object] = NoEntry]
    /\ tret' = [TRet("delete", object,
                     Memory_Profiler_Object_Table_lookup(table, object),
                     Memory_Profiler_Object_Table_lookup(table, object) # -1, TRUE, << >>)
                  EXCEPT !.probes = find_entry(table.entries, table.capacity, object).probes]
    /\ UNCHANGED cvars

\* The entry pointers a caller may pass to delete_entry: what the last call
\* returned (-1 stands for NULL), the slot where the probe for a key ends, and the
\* address just past the array.
EntryPointers ==
    {tret.index, table.capacity}
    \cup {find_entry(table.entries, table.capacity, a).index : a \in Addrs}

TableDeleteEntry(index) ==
    /\ ext = "table"
    /\ tret.n < MaxTableOps
    /\ table.heap_ok
    /\ table' = Memory_Profiler_Object_Table_delete_entry(table, index)
    /\ shadow' = [a \in Addrs |->
                    IF index \in 0..(table.capacity - 1) /\ table.entries[index].object = a
                    THEN NoEntry ELSE shadow[a]]
    /\ tret' = TRet("delete_entry", 0, index,
                    /\ index \in 0..(table.capacity - 1)
                    /\ Occupied(table.entries[index]),
                    TRUE, << >>)
    /\ UNCHANGED cvars

\* A lookup that creates the entry it does not find.
Mutant_TableLookup_inserts(object) ==
    /\ ext = "table"
    /\ tret.n < MaxTableOps
    /\ table.heap_ok
    /\ table' = Memory_Profiler_Object_Table_insert(table, object, TRUE).table
    /\ shadow' = shadow
    /\ tret' = [TRet("lookup", object,
                     Memory_Profiler_Object_Table_lookup(table, object),
                     Memory_Profiler_Object_Table_lookup(table, object) # -1, TRUE, << >>)
                  EXCEPT !.probes = find_entry(table.entries, table.capacity, object).probes]
    /\ UNCHANGED cvars

\* lookup(object): find_entry reads the slots and lookup returns the entry or NULL;
\* neither assigns to the table.
TableLookup(object) ==
    /\ ext = "table"
    /\ tret.n < MaxTableOps
    /\ table.heap_ok
    /\ table' = table
    /\ shadow' = shadow
    /\ tret' = [TRet("lookup", object,
                     Memory_Profiler_Object_Table_lookup(table, object),
                     Memory_Profiler_Object_Table_lookup(table, object) # -1, TRUE, << >>)
                  EXCEPT !.probes = find_entry(table.entries, table.capacity, object).probes]
    /\ UNCHANGED cvars

\* The collector marks the table.
TableMark ==
    /\ ext = "table"
    /\ tret.n < MaxTableOps
    /\ table.heap_ok
    /\ tret' = [TRet("mark", 0, -1, FALSE, TRUE, << >>)
                  EXCEPT !.marked = Memory_Profiler_Object_Table_mark(table)]
    /\ UNCHANGED <<table, shadow, cvars>>

TableIncrementStrong ==
    /\ ext = "table"
    /\ tret.n < MaxTableOps
    /\ table.heap_ok
    /\ table.strong < MaxStrong
    /\ table' = Memory_Profiler_Object_Table_increment_strong(table)
    /\ tret' = TRet("increment_strong", 0, -1, FALSE, TRUE, << >>)
    /\ UNCHANGED <<shadow, cvars>>

TableDecrementStrong ==
    /\ ext = "table"
    /\ tret.n < MaxTableOps
    /\ table.heap_ok
    /\ table' = Memory_Profiler_Object_Table_decrement_strong(table)
    /\ tret' = TRet("decrement_strong", 0, -1, FALSE, TRUE, << >>)
    /\ UNCHANGED <<shadow, cvars>>

\* The relocations of keys the collector may report: no live object moves, one
\* moves to a free address, or one moves to a free address and a second one takes
\* the address the first one left.
KeyMoves ==
    {[a \in Live |-> a]}
    \cup {[a \in Live |-> IF a = x THEN y ELSE a] : x \in Live, y \in Addrs \ Live}
    \cup {[a \in Live |-> IF a = x[1] THEN y ELSE IF a = x[2] THEN x[1] ELSE a] :
            x \in {p \in Live \X Live : p[1] # p[2]}, y \in Addrs \ Live}

MetaMoves ==
    {[m \in MetaAddrs |-> m],
     [m \in MetaAddrs |-> IF m = 1040 THEN 1080 ELSE IF m = 1080 THEN 1120 ELSE 1040]}

Relocation(r, mm) == [v \in Live \cup MetaAddrs |-> IF v \in Live THEN r[v] ELSE mm[v]]

\* Some slot of the table refers to a metadata object.
HoldsMetadata(t) ==
    \E i \in 0..(t.capacity - 1) : t.entries[i].klass # 0 \/ t.entries[i].data # 0

\* The collector compacts the heap and calls the table's compact(). A relocation of
\* the metadata objects is an input only when the table refers to one of them.
TableCompact(r, mm, malloc_ok, overrun_ok) ==
    /\ ext = "table"
    /\ tret.n < MaxTableOps
    /\ table.heap_ok
    /\ tret.compactions < MaxCompactions
    /\ ~HoldsMetadata(table) => \A v \in MetaAddrs : mm[v] = v
    /\ ~malloc_ok => \E a \in Live : r[a] # a
    /\ ~malloc_ok => tret.failures < MaxFailures
    /\ ~overrun_ok => Cardinality({i \in 0..(table.capacity - 1) :
                                      Occupied(table.entries[i])}) > table.count
    /\ LET loc == Relocation(r, mm)
       IN /\ table' = Memory_Profiler_Object_Table_compact(table, loc, malloc_ok, overrun_ok)
          /\ shadow' = [a \in Addrs |->
                          IF \E b \in Live : r[b] = a
                          THEN LET b == CHOOSE b \in Live : r[b] = a
                               IN [present |-> TRUE,
                                   klass |-> rb_gc_location(loc, shadow[b].klass),
                                   data |-> rb_gc_location(loc, shadow[b].data)]
                          ELSE NoEntry]
          /\ tret' = TRet(IF \E a \in Live : r[a] # a THEN "compact_moved" ELSE "compact",
                          0, -1, FALSE, malloc_ok, loc)
    /\ UNCHANGED cvars

\* A new table of InitialCapacity slots.
TableStart ==
    /\ table = Memory_Profiler_Object_Table_new(InitialCapacity)
    /\ shadow = [a \in Addrs |-> NoEntry]
    /\ tret = [op |-> "new", object |-> 0, index |-> -1, found |-> FALSE, n |-> 0,
               probes |-> 0, marked |-> {},
               loc |-> << >>, prev_op |-> "new", prev_object |-> 0,
               compactions |-> 0, failures |-> 0, resize_failures |-> 0]

TableInit ==
    /\ ext = "table"
    /\ obj_class = [o \in Objects |-> NoClass]
    /\ hooks = 0
    /\ nsteps = 0
    /\ tracked_classes = [k \in Classes |-> 0]
    /\ records = << >>
    /\ running = 0
    /\ enabled = 0
    /\ newobj_queue = << >>
    /\ freeobj_queue = << >>
    /\ job_pending = FALSE
    /\ stack = << >>
    /\ log = << >>
    /\ observed = << >>
    /\ ret = Ret("alloc", NoClass, Qnil, 0, "returned", TRUE, 0)
    /\ TableStart

TableNext ==
    \/ \E a \in Addrs, fill \in Fills, ok \in BOOLEAN :
          TableInsert(a, fill, ok)
    \/ \E a \in Addrs : TableDelete(a)
    \/ \E index \in EntryPointers : TableDeleteEntry(index)
    \/ \E r \in KeyMoves, mm \in MetaMoves, ok \in BOOLEAN, fits \in BOOLEAN :
          TableCompact(r, mm, ok, fits)

TableSpec == TableInit /\ [][TableNext]_vars

\* The table with its reading operations and its strong counter as well, in
\* shorter runs.
TableApiNext ==
    /\ tret.n < MaxApiOps
    /\ \/ TableNext
       \/ \E a \in Addrs : TableLookup(a)
       \/ TableMark
       \/ TableIncrementStrong
       \/ TableDecrementStrong

TableApiSpec == TableInit /\ [][TableApiNext]_vars

\* The same operations on a table made with twice the initial capacity, in which
\* a tombstone can lie before a key without the next insert resizing.
TableWideInit ==
    /\ ext = "table"
    /\ obj_class = [o \in Objects |-> NoClass]
    /\ hooks = 0
    /\ nsteps = 0
    /\ tracked_classes = [k \in Classes |-> 0]
    /\ records = << >>
    /\ running = 0
    /\ enabled = 0
    /\ newobj_queue = << >>
    /\ freeobj_queue = << >>
    /\ job_pending = FALSE
    /\ stack = << >>
    /\ log = << >>
    /\ observed = << >>
    /\ ret = Ret("alloc", NoClass, Qnil, 0, "returned", TRUE, 0)
    /\ table = Memory_Profiler_Object_Table_new(2 * InitialCapacity)
    /\ shadow = [a \in Addrs |-> NoEntry]
    /\ tret = [op |-> "new", object |-> 0, index |-> -1, found |-> FALSE, n |-> 0,
               probes |-> 0, marked |-> {},
               loc |-> << >>, prev_op |-> "new", prev_object |-> 0,
               compactions |-> 0, failures |-> 0, resize_failures |-> 0]

TableWideSpec == TableWideInit /\ [][TableApiNext]_vars

\* ------------------------------------------------------------------ Init
Init ==
    /\ ext \in {"profiler", "tracker"}
    /\ obj_class = [o \in Objects |-> NoClass]
    /\ hooks = 0
    /\ nsteps = 0
    /\ tracked_classes = [k \in Classes |-> 0]
    /\ records = << >>
    /\ running = 0
    /\ enabled = 0
    /\ newobj_queue = << >>
    /\ freeobj_queue = << >>
    /\ job_pending = FALSE
    /\ stack = << >>
    /\ log = << >>
    /\ observed = << >>
    /\ ret = Ret("alloc", NoClass, Qnil, 0, "returned", TRUE, 0)
    /\ TableStart

\* ------------------------------------------------------------------ readers
Memory_Profiler_Capture_tracking_p(klass) == tracked_classes[klass] # 0

Memory_Profiler_Capture_aref(klass) == tracked_classes[klass]

\* Mutant: the subtraction without the clamp.
Mutant_count_for_unclamped(klass) ==
    IF tracked_classes[klass] # 0
    THEN LET record == records[tracked_classes[klass]]
         IN SizeSub(record.new_count, record.free_count)
    ELSE 0

Memory_Profiler_Capture_count_for(klass) ==
    IF tracked_classes[klass] # 0
    THEN LET record == records[tracked_classes[klass]]
         IN IF record.free_count > record.new_count
            THEN 0
            ELSE SizeSub(record.new_count, record.free_count)
    ELSE 0

Memory_Profiler_Allocations_retained_count(allocations) ==
    LET record == records[allocations]
    IN IF record.free_count > record.new_count
       THEN 0
       ELSE SizeSub(record.new_count, record.free_count)

Memory_Tracker_Capture_count_for(klass) ==
    IF tracked_classes[klass] # 0
    THEN LET record == records[tracked_classes[klass]]
         IN IF record.free_count > record.new_count
            THEN 0
            ELSE SizeSub(record.new_count, record.free_count)
    ELSE 0

\* ------------------------------------------------------------------ hooks (profiler)
\* push_ok: whether Memory_Profiler_Queue_push returned a slot (it returns NULL when
\* the buffer cannot grow).
\* Mutant: the postponed job is triggered whether or not the push gave a slot.
Mutant_newobj_handler_triggers_on_drop(klass, object, push_ok) ==
    IF tracked_classes[klass] # 0
    THEN LET allocations == tracked_classes[klass]
             record == records[allocations]
         IN /\ records' = [records EXCEPT ![allocations].new_count = SizeAdd(@, 1)]
            /\ IF enabled = 1 /\ record.callback # Qnil
               THEN /\ newobj_queue' = IF push_ok
                                       THEN Append(newobj_queue,
                                                Item(klass, allocations, object, Qnil, nsteps + 1))
                                       ELSE newobj_queue
                    /\ job_pending' = TRUE
               ELSE UNCHANGED <<newobj_queue, job_pending>>
            /\ UNCHANGED <<tracked_classes, freeobj_queue>>
    ELSE /\ records' = Append(records, FirstSeenRecord)
         /\ tracked_classes' = [tracked_classes EXCEPT ![klass] = Len(records) + 1]
         /\ UNCHANGED <<newobj_queue, freeobj_queue, job_pending>>

\* Mutant: the allocation is counted only when it is queued for the callback.
Mutant_newobj_handler_counts_queued(klass, object, push_ok) ==
    IF tracked_classes[klass] # 0
    THEN LET allocations == tracked_classes[klass]
             record == records[allocations]
         IN IF enabled = 1 /\ record.callback # Qnil /\ push_ok
            THEN /\ records' = [records EXCEPT ![allocations].new_count = SizeAdd(@, 1)]
                 /\ newobj_queue' = Append(newobj_queue,
                         Item(klass, allocations, object, Qnil, nsteps + 1))
                 /\ job_pending' = TRUE
                 /\ UNCHANGED <<tracked_classes, freeobj_queue>>
            ELSE UNCHANGED <<records, tracked_classes, newobj_queue, freeobj_queue,
                             job_pending>>
    ELSE /\ records' = Append(records, FirstSeenRecord)
         /\ tracked_classes' = [tracked_classes EXCEPT ![klass] = Len(records) + 1]
         /\ UNCHANGED <<newobj_queue, freeobj_queue, job_pending>>

Memory_Profiler_Capture_newobj_handler(klass, object, push_ok) ==
    IF tracked_classes[klass] # 0
    THEN LET allocations == tracked_classes[klass]
             record == records[allocations]
         IN /\ records' = [records EXCEPT ![allocations].new_count = SizeAdd(@, 1)]
            /\ IF enabled = 1 /\ record.callback # Qnil /\ push_ok
               THEN /\ newobj_queue' = Append(newobj_queue,
                            Item(klass, allocations, object, Qnil, nsteps + 1))
                    /\ job_pending' = TRUE
               ELSE UNCHANGED <<newobj_queue, job_pending>>
            /\ UNCHANGED <<tracked_classes, freeobj_queue>>
    ELSE /\ records' = Append(records, FirstSeenRecord)
         /\ tracked_classes' = [tracked_classes EXCEPT ![klass] = Len(records) + 1]
         /\ UNCHANGED <<newobj_queue, freeobj_queue, job_pending>>

\* Mutant: a freeobj item is queued whether or not a state is stored for the object.
Mutant_freeobj_handler_without_state(klass, object, push_ok) ==
    IF tracked_classes[klass] # 0
    THEN LET allocations == tracked_classes[klass]
             record == records[allocations]
             state == record.object_states[object]
         IN /\ records' = [records EXCEPT
                    ![allocations].free_count = SizeAdd(@, 1),
                    ![allocations].object_states[object] = Qnil]
            /\ IF enabled = 1 /\ record.callback # Qnil /\ push_ok
               THEN /\ freeobj_queue' = Append(freeobj_queue,
                            Item(klass, allocations, object, state, nsteps + 1))
                    /\ job_pending' = TRUE
               ELSE UNCHANGED <<freeobj_queue, job_pending>>
            /\ UNCHANGED <<tracked_classes, newobj_queue>>
    ELSE UNCHANGED <<records, tracked_classes, newobj_queue, freeobj_queue, job_pending>>

Memory_Profiler_Capture_freeobj_handler(klass, object, push_ok) ==
    IF tracked_classes[klass] # 0
    THEN LET allocations == tracked_classes[klass]
             record == records[allocations]
             state == record.object_states[object]
             found == /\ enabled = 1
                      /\ record.callback # Qnil
                      /\ record.states_alloc
                      /\ state # Qnil
         IN /\ records' = [records EXCEPT
                    ![allocations].free_count = SizeAdd(@, 1),
                    ![allocations].object_states[object] = IF found THEN Qnil ELSE @]
            /\ IF found /\ push_ok
               THEN /\ freeobj_queue' = Append(freeobj_queue,
                            Item(klass, allocations, object, state, nsteps + 1))
                    /\ job_pending' = TRUE
               ELSE UNCHANGED <<freeobj_queue, job_pending>>
            /\ UNCHANGED <<tracked_classes, newobj_queue>>
    ELSE UNCHANGED <<records, tracked_classes, newobj_queue, freeobj_queue, job_pending>>

\* ------------------------------------------------------------------ hooks (tracker)
\* The tracker calls the callback from inside the NEWOBJ hook.
Memory_Tracker_Capture_newobj_handler(klass, object) ==
    IF tracked_classes[klass] # 0
    THEN LET allocations == tracked_classes[klass]
             record == records[allocations]
         IN /\ records' = [records EXCEPT ![allocations].new_count = SizeAdd(@, 1)]
            /\ log' = IF record.callback # Qnil
                      THEN Append(log, Call("newobj", klass, Qnil,
                                   Item(klass, allocations, object, Qnil, nsteps + 1),
                                   record.callback, "newobj_handler", "returned"))
                      ELSE log
            /\ UNCHANGED tracked_classes
    ELSE /\ records' = Append(records, FirstSeenRecord)
         /\ tracked_classes' = [tracked_classes EXCEPT ![klass] = Len(records) + 1]
         /\ UNCHANGED log

Memory_Tracker_Capture_freeobj_handler(klass) ==
    /\ records' = IF tracked_classes[klass] # 0
                  THEN [records EXCEPT ![tracked_classes[klass]].free_count = SizeAdd(@, 1)]
                  ELSE records
    /\ UNCHANGED <<tracked_classes, log>>

\* ------------------------------------------------------------------ the drain
\* Index of the first newobj item at or after i whose record has a callback, 0 when
\* there is none (an item whose record has no callback is passed over with no effect).
RECURSIVE NextNewobj(_)
NextNewobj(i) ==
    IF i > Len(newobj_queue) THEN 0
    ELSE IF records[newobj_queue[i].allocations].callback # Qnil THEN i
    ELSE NextNewobj(i + 1)

RECURSIVE NextFreeobj(_)
NextFreeobj(i) ==
    IF i > Len(freeobj_queue) THEN 0
    ELSE IF records[freeobj_queue[i].allocations].callback # Qnil THEN i
    ELSE NextFreeobj(i + 1)

\* The elements of a set of numbers in ascending order.
RECURSIVE Ascending(_)
Ascending(S) ==
    IF S = {} THEN << >>
    ELSE LET least == CHOOSE x \in S : \A y \in S : x <= y
         IN <<least>> \o Ascending(S \ {least})

\* Ghost: the queued events whose record has a callback, by their ordinals, in the
\* order in which the hooks observed them.
Pending ==
    Ascending({newobj_queue[i].seq : i \in {x \in DOMAIN newobj_queue :
                   records[newobj_queue[x].allocations].callback # Qnil}}
              \cup
              {freeobj_queue[i].seq : i \in {x \in DOMAIN freeobj_queue :
                   records[freeobj_queue[x].allocations].callback # Qnil}})

\* One call of process_queues: who called it, its local was_enabled, its loop (phase
\* and index i), whether it is inside a callback, the locals of the item being
\* processed; ghost: the log index of the running callback, the ordinal of the
\* last environment step before the call, and the length of the log and the pending
\* events at the call.
Frame(kind, was_enabled) ==
    [kind |-> kind, was_enabled |-> was_enabled, phase |-> "newobj", i |-> 1,
     incb |-> FALSE, item |-> NoItem, logix |-> 0, start |-> nsteps,
     log0 |-> Len(log), pending |-> Pending]

\* process_queues, from the loop position of `frame` (which runs above the frames
\* `below`) up to its next call of a user callback, or to its end. `en` is the value
\* of capture->enabled while the loops run, `lg` the log so far, `rt` the state of
\* the last API call. Sets stack, log, both queues, enabled, running and ret.
Memory_Profiler_Capture_process_queues(below, frame, en, lg, rt) ==
    LET n == IF frame.phase = "newobj" THEN NextNewobj(frame.i) ELSE 0
        f == IF frame.phase = "newobj" THEN NextFreeobj(1) ELSE NextFreeobj(frame.i)
    IN IF n # 0
       THEN LET item == newobj_queue[n]
            IN /\ log' = Append(lg, Call("newobj", item.klass, Qnil, item,
                                  records[item.allocations].callback,
                                  "process_queues", "running"))
               /\ stack' = Append(below, [frame EXCEPT !.i = n, !.incb = TRUE,
                                  !.item = item, !.logix = Len(lg) + 1])
               /\ enabled' = en
               /\ ret' = rt
               /\ UNCHANGED <<newobj_queue, freeobj_queue, running>>
       ELSE IF f # 0
       THEN LET item == freeobj_queue[f]
            IN /\ log' = Append(lg, Call("freeobj", item.klass, item.state, item,
                                  records[item.allocations].callback,
                                  "process_queues", "running"))
               /\ stack' = Append(below, [frame EXCEPT !.phase = "freeobj", !.i = f,
                                  !.incb = TRUE, !.item = item, !.logix = Len(lg) + 1])
               /\ enabled' = en
               /\ ret' = rt
               /\ UNCHANGED <<newobj_queue, freeobj_queue, running>>
       ELSE /\ newobj_queue' = << >>
            /\ freeobj_queue' = << >>
            /\ stack' = below
            /\ log' = lg
            /\ IF frame.kind = "stop"
               THEN /\ running' = 0
                    /\ enabled' = 0
                    /\ ret' = Ret("stop", NoClass, Qnil, frame.start + 1, "returned", TRUE, 0)
               ELSE /\ enabled' = frame.was_enabled
                    /\ ret' = rt
                    /\ UNCHANGED running

\* A job whose drain leaves capture->enabled as it is while it runs.
Mutant_PostponedJob_unpaused ==
    /\ ext = "profiler"
    /\ job_pending
    /\ AtTopLevel \/ InCallback
    /\ \A d \in DOMAIN stack : stack[d].kind # "job"
    /\ job_pending' = FALSE
    /\ Memory_Profiler_Capture_process_queues(stack, Frame("job", enabled), enabled, log, ret)
    /\ observed' = Append(observed, DrainStarted)
    /\ UNCHANGED <<tvars, ext, obj_class, hooks, nsteps, tracked_classes, records>>

\* The host runs the postponed job at a safe point: between two steps of user code,
\* also of a callback that stop() is running; never inside the job itself.
PostponedJob ==
    /\ ext = "profiler"
    /\ job_pending
    /\ AtTopLevel \/ InCallback
    /\ \A d \in DOMAIN stack : stack[d].kind # "job"
    /\ job_pending' = FALSE
    /\ Memory_Profiler_Capture_process_queues(stack, Frame("job", enabled), 0, log, ret)
    /\ observed' = Append(observed, DrainStarted)
    /\ UNCHANGED <<tvars, ext, obj_class, hooks, nsteps, tracked_classes, records>>

\* The running callback returns `state`: process_queues stores it under the object
\* (newobj, state not nil) and goes on with the next item.
CallbackReturn(state) ==
    /\ InCallback
    /\ LET frame == Top
           item == frame.item
       IN /\ records' = IF frame.phase = "newobj" /\ state # Qnil
                        THEN [records EXCEPT
                                 ![item.allocations].states_alloc = TRUE,
                                 ![item.allocations].object_states[item.object] = state]
                        ELSE records
          /\ Memory_Profiler_Capture_process_queues(
                 SubSeq(stack, 1, Len(stack) - 1),
                 [frame EXCEPT !.i = @ + 1, !.incb = FALSE],
                 enabled,
                 [log EXCEPT ![frame.logix].result = state],
                 ret)
    /\ UNCHANGED <<tvars, ext, obj_class, hooks, nsteps, tracked_classes, job_pending, observed>>

\* The running callback raises: rb_funcall is not protected, so the exception
\* leaves process_queues at once (and stop(), when stop() called it).
CallbackRaise ==
    /\ InCallback
    /\ log' = [log EXCEPT ![Top.logix].result = "raised"]
    /\ stack' = SubSeq(stack, 1, Len(stack) - 1)
    /\ ret' = IF Top.kind = "stop"
              THEN Ret("stop", NoClass, Qnil, Top.start + 1, "raised", FALSE, 0)
              ELSE ret
    /\ UNCHANGED <<tvars, ext, obj_class, hooks, nsteps, tracked_classes, records,
                   running, enabled, newobj_queue, freeobj_queue, job_pending, observed>>

\* ------------------------------------------------------------------ API (profiler)
Memory_Profiler_Capture_start ==
    /\ ext = "profiler"
    /\ nsteps < MaxSteps
    /\ nsteps' = nsteps + 1
    /\ AtTopLevel
    /\ IF running = 1
       THEN /\ ret' = Ret("start", NoClass, Qnil, nsteps + 1, "returned", FALSE, 0)
            /\ UNCHANGED <<hooks, running, enabled>>
       ELSE /\ hooks' = hooks + 1
            /\ running' = 1
            /\ enabled' = 1
            /\ ret' = Ret("start", NoClass, Qnil, nsteps + 1, "returned", TRUE, 0)
    /\ UNCHANGED <<tvars, ext, obj_class, tracked_classes, records, newobj_queue,
                   freeobj_queue, job_pending, stack, log, observed>>

Memory_Profiler_Capture_stop ==
    /\ ext = "profiler"
    /\ nsteps < MaxSteps
    /\ nsteps' = nsteps + 1
    /\ AtTopLevel
    /\ IF running = 0
       THEN /\ ret' = Ret("stop", NoClass, Qnil, nsteps + 1, "returned", FALSE, 0)
            /\ UNCHANGED <<hooks, running, enabled, newobj_queue, freeobj_queue,
                           stack, log, observed>>
       ELSE /\ hooks' = 0
            /\ Memory_Profiler_Capture_process_queues(stack, Frame("stop", enabled), 0, log,
                   Ret("stop", NoClass, Qnil, nsteps + 1, "active", FALSE, 0))
            /\ observed' = Append(observed, DrainStarted)
    /\ UNCHANGED <<tvars, ext, obj_class, tracked_classes, records, job_pending>>

\* Mutant: track() on a class that has a record starts the record afresh.
Mutant_track_resets_record(klass, callback) ==
    /\ ext = "profiler"
    /\ nsteps < MaxSteps
    /\ nsteps' = nsteps + 1
    /\ AtTopLevel
    /\ IF tracked_classes[klass] # 0
       THEN /\ records' = [records EXCEPT ![tracked_classes[klass]] = TrackedRecord(callback)]
            /\ ret' = Ret("track", klass, callback, nsteps + 1, "returned", TRUE, tracked_classes[klass])
            /\ UNCHANGED tracked_classes
       ELSE /\ records' = Append(records, TrackedRecord(callback))
            /\ tracked_classes' = [tracked_classes EXCEPT ![klass] = Len(records) + 1]
            /\ ret' = Ret("track", klass, callback, nsteps + 1, "returned", TRUE, Len(records) + 1)
    /\ UNCHANGED <<tvars, ext, obj_class, hooks, running, enabled, newobj_queue,
                   freeobj_queue, job_pending, stack, log, observed>>

Memory_Profiler_Capture_track(klass, callback) ==
    /\ ext = "profiler"
    /\ nsteps < MaxSteps
    /\ nsteps' = nsteps + 1
    /\ AtTopLevel
    /\ IF tracked_classes[klass] # 0
       THEN /\ records' = [records EXCEPT ![tracked_classes[klass]].callback = callback]
            /\ ret' = Ret("track", klass, callback, nsteps + 1, "returned", TRUE, tracked_classes[klass])
            /\ UNCHANGED tracked_classes
       ELSE /\ records' = Append(records, TrackedRecord(callback))
            /\ tracked_classes' = [tracked_classes EXCEPT ![klass] = Len(records) + 1]
            /\ ret' = Ret("track", klass, callback, nsteps + 1, "returned", TRUE, Len(records) + 1)
    /\ UNCHANGED <<tvars, ext, obj_class, hooks, running, enabled, newobj_queue,
                   freeobj_queue, job_pending, stack, log, observed>>

\* Mutant: untrack() releases the record at once, as the tracker's untrack does.
Mutant_untrack_frees_record(klass) ==
    /\ ext = "profiler"
    /\ nsteps < MaxSteps
    /\ nsteps' = nsteps + 1
    /\ AtTopLevel \/ InCallback
    /\ tracked_classes' = [tracked_classes EXCEPT ![klass] = 0]
    /\ records' = IF tracked_classes[klass] # 0
                  THEN [records EXCEPT ![tracked_classes[klass]].live = FALSE]
                  ELSE records
    /\ ret' = Ret("untrack", klass, Qnil, nsteps + 1, "returned", TRUE, 0)
    /\ UNCHANGED <<tvars, ext, obj_class, hooks, running, enabled,
                   newobj_queue, freeobj_queue, job_pending, stack, log, observed>>

\* An untrack that also drops the queued events of the type.
Mutant_untrack_drops_queued(klass) ==
    /\ ext = "profiler"
    /\ nsteps < MaxSteps
    /\ nsteps' = nsteps + 1
    /\ AtTopLevel \/ InCallback
    /\ tracked_classes' = [tracked_classes EXCEPT ![klass] = 0]
    /\ newobj_queue' = SelectSeq(newobj_queue, LAMBDA q : q.klass # klass)
    /\ freeobj_queue' = SelectSeq(freeobj_queue, LAMBDA q : q.klass # klass)
    /\ ret' = Ret("untrack", klass, Qnil, nsteps + 1, "returned", TRUE, 0)
    /\ UNCHANGED <<tvars, ext, obj_class, hooks, records, running, enabled,
                   job_pending, stack, log, observed>>

\* untrack() runs no callback and touches no queue, so user code may also call it
\* from inside a callback of a drain.
Memory_Profiler_Capture_untrack(klass) ==
    /\ ext = "profiler"
    /\ nsteps < MaxSteps
    /\ nsteps' = nsteps + 1
    /\ AtTopLevel \/ InCallback
    /\ tracked_classes' = [tracked_classes EXCEPT ![klass] = 0]
    /\ ret' = Ret("untrack", klass, Qnil, nsteps + 1, "returned", TRUE, 0)
    /\ UNCHANGED <<tvars, ext, obj_class, hooks, records, running, enabled,
                   newobj_queue, freeobj_queue, job_pending, stack, log, observed>>

\* A clear that resets the counters and the callback and keeps the stored states.
Mutant_Allocations_clear_keeps_states(record) ==
    [record EXCEPT !.new_count = 0, !.free_count = 0, !.callback = Qnil,
                   !.born = Len(observed), !.cleared = TRUE]

Memory_Profiler_Allocations_clear(record) ==
    [record EXCEPT !.new_count = 0, !.free_count = 0, !.callback = Qnil,
                   !.states_alloc = FALSE, !.object_states = NoStates,
                   !.born = Len(observed), !.cleared = TRUE]

Memory_Profiler_Capture_clear ==
    /\ ext = "profiler"
    /\ nsteps < MaxSteps
    /\ nsteps' = nsteps + 1
    /\ AtTopLevel
    /\ records' = [a \in DOMAIN records |->
                     IF \E k \in Classes : tracked_classes[k] = a
                     THEN Memory_Profiler_Allocations_clear(records[a])
                     ELSE records[a]]
    /\ ret' = Ret("clear", NoClass, Qnil, nsteps + 1, "returned", TRUE, 0)
    /\ UNCHANGED <<tvars, ext, obj_class, hooks, tracked_classes, running, enabled,
                   newobj_queue, freeobj_queue, job_pending, stack, log, observed>>

\* ------------------------------------------------------------------ API (tracker)
Memory_Tracker_Capture_start ==
    /\ ext = "tracker"
    /\ nsteps < MaxSteps
    /\ nsteps' = nsteps + 1
    /\ IF enabled = 1
       THEN /\ ret' = Ret("start", NoClass, Qnil, nsteps + 1, "returned", FALSE, 0)
            /\ UNCHANGED <<hooks, enabled>>
       ELSE /\ hooks' = hooks + 1
            /\ enabled' = 1
            /\ ret' = Ret("start", NoClass, Qnil, nsteps + 1, "returned", TRUE, 0)
    /\ UNCHANGED <<tvars, ext, obj_class, tracked_classes, records, running,
                   newobj_queue, freeobj_queue, job_pending, stack, log, observed>>

Memory_Tracker_Capture_stop ==
    /\ ext = "tracker"
    /\ nsteps < MaxSteps
    /\ nsteps' = nsteps + 1
    /\ IF enabled = 0
       THEN /\ ret' = Ret("stop", NoClass, Qnil, nsteps + 1, "returned", FALSE, 0)
            /\ UNCHANGED <<hooks, enabled>>
       ELSE /\ hooks' = 0
            /\ enabled' = 0
            /\ ret' = Ret("stop", NoClass, Qnil, nsteps + 1, "returned", TRUE, 0)
    /\ UNCHANGED <<tvars, ext, obj_class, tracked_classes, records, running,
                   newobj_queue, freeobj_queue, job_pending, stack, log, observed>>

Memory_Tracker_Capture_track(klass, callback) ==
    /\ ext = "tracker"
    /\ nsteps < MaxSteps
    /\ nsteps' = nsteps + 1
    /\ IF tracked_classes[klass] # 0
       THEN /\ records' = [records EXCEPT ![tracked_classes[klass]].callback = callback]
            /\ UNCHANGED tracked_classes
       ELSE /\ records' = Append(records, TrackedRecord(callback))
            /\ tracked_classes' = [tracked_classes EXCEPT ![klass] = Len(records) + 1]
    /\ ret' = Ret("track", klass, callback, nsteps + 1, "returned", TRUE, 0)
    /\ UNCHANGED <<tvars, ext, obj_class, hooks, running, enabled, newobj_queue,
                   freeobj_queue, job_pending, stack, log, observed>>

Memory_Tracker_Capture_untrack(klass) ==
    /\ ext = "tracker"
    /\ nsteps < MaxSteps
    /\ nsteps' = nsteps + 1
    /\ tracked_classes' = [tracked_classes EXCEPT ![klass] = 0]
    /\ records' = IF tracked_classes[klass] # 0
                  THEN [records EXCEPT ![tracked_classes[klass]].live = FALSE]
                  ELSE records
    /\ ret' = Ret("untrack", klass, Qnil, nsteps + 1, "returned", TRUE, 0)
    /\ UNCHANGED <<tvars, ext, obj_class, hooks, running, enabled,
                   newobj_queue, freeobj_queue, job_pending, stack, log, observed>>

Memory_Tracker_Capture_reset_class(record) ==
    [record EXCEPT !.new_count = 0, !.free_count = 0, !.callback = Qnil,
                   !.born = Len(observed), !.cleared = TRUE]

Memory_Tracker_Capture_clear ==
    /\ ext = "tracker"
    /\ nsteps < MaxSteps
    /\ nsteps' = nsteps + 1
    /\ records' = [a \in DOMAIN records |->
                     IF \E k \in Classes : tracked_classes[k] = a
                     THEN Memory_Tracker_Capture_reset_class(records[a])
                     ELSE records[a]]
    /\ ret' = Ret("clear", NoClass, Qnil, nsteps + 1, "returned", TRUE, 0)
    /\ UNCHANGED <<tvars, ext, obj_class, hooks, tracked_classes, running, enabled,
                   newobj_queue, freeobj_queue, job_pending, stack, log, observed>>

\* ------------------------------------------------------------------ the host
\* Memory_*_Capture_event_callback: the host allocates `object` of class `klass` and,
\* when the hook is installed, delivers NEWOBJ.
Newobj(klass, object, push_ok) ==
    /\ obj_class[object] = NoClass
    /\ nsteps < MaxSteps
    /\ nsteps' = nsteps + 1
    /\ obj_class' = [obj_class EXCEPT ![object] = klass]
    /\ observed' = IF hooks = 0 THEN observed
                   ELSE Append(observed, Obs("newobj", klass, object, nsteps + 1,
                                             CallbackOf(klass), Accepted(klass, push_ok)))
    /\ IF hooks = 0
       THEN UNCHANGED <<tracked_classes, records, newobj_queue, freeobj_queue,
                        job_pending, log>>
       ELSE IF ext = "profiler"
       THEN /\ Memory_Profiler_Capture_newobj_handler(klass, object, push_ok)
            /\ UNCHANGED log
       ELSE IF enabled = 1
       THEN /\ Memory_Tracker_Capture_newobj_handler(klass, object)
            /\ UNCHANGED <<newobj_queue, freeobj_queue, job_pending>>
       ELSE UNCHANGED <<tracked_classes, records, newobj_queue, freeobj_queue,
                        job_pending, log>>
    /\ UNCHANGED <<tvars, ext, hooks, running, enabled, stack, ret>>

\* Memory_Profiler_Capture_mark reports the object of every queued newobj item
\* reachable, so the host cannot reclaim it while it is queued.
Marked(object) == \E i \in DOMAIN newobj_queue : newobj_queue[i].object = object

\* The host reclaims `object` and, when the hook is installed, delivers FREEOBJ. A key
\* of object_states can be reclaimed: process_queues inserts it with no write
\* barrier, so a minor collection does not see the reference.
Freeobj(object, push_ok) ==
    /\ obj_class[object] # NoClass
    /\ ~Marked(object)
    /\ nsteps < MaxSteps
    /\ nsteps' = nsteps + 1
    /\ obj_class' = [obj_class EXCEPT ![object] = NoClass]
    /\ observed' = IF hooks = 0 THEN observed
                   ELSE Append(observed, Obs("freeobj", obj_class[object], object, nsteps + 1,
                                             CallbackOf(obj_class[object]),
                                             Accepted(obj_class[object], push_ok)))
    /\ IF hooks = 0
       THEN UNCHANGED <<tracked_classes, records, newobj_queue, freeobj_queue,
                        job_pending, log>>
       ELSE IF ext = "profiler"
       THEN /\ Memory_Profiler_Capture_freeobj_handler(obj_class[object], object, push_ok)
            /\ UNCHANGED log
       ELSE IF enabled = 1
       THEN /\ Memory_Tracker_Capture_freeobj_handler(obj_class[object])
            /\ UNCHANGED <<newobj_queue, freeobj_queue, job_pending>>
       ELSE UNCHANGED <<tracked_classes, records, newobj_queue, freeobj_queue,
                        job_pending, log>>
    /\ UNCHANGED <<tvars, ext, hooks, running, enabled, stack, ret>>

\* The Allocations wrapper `allocations` is reported reachable: it is a value of
\* tracked_classes, or a queued item or an item being processed refers to it.
RecordMarked(allocations) ==
    \/ \E k \in Classes : tracked_classes[k] = allocations
    \/ \E i \in DOMAIN newobj_queue : newobj_queue[i].allocations = allocations
    \/ \E i \in DOMAIN freeobj_queue : freeobj_queue[i].allocations = allocations
    \/ \E d \in DOMAIN stack : stack[d].incb /\ stack[d].item.allocations = allocations

\* The host collects an Allocations wrapper that nothing reports reachable;
\* Memory_Profiler_Allocations_free releases the record.
ReclaimRecord(allocations) ==
    /\ ext = "profiler"
    /\ records[allocations].live
    /\ ~RecordMarked(allocations)
    /\ records' = [records EXCEPT ![allocations].live = FALSE]
    /\ UNCHANGED <<tvars, ext, obj_class, hooks, nsteps, tracked_classes, running, enabled,
                   newobj_queue, freeobj_queue, job_pending, stack, log, observed, ret>>

\* ------------------------------------------------------------------ specification
Next ==
    \/ \E k \in Classes, o \in Objects, ok \in BOOLEAN : Newobj(k, o, ok)
    \/ \E o \in Objects, ok \in BOOLEAN : Freeobj(o, ok)
    \/ PostponedJob
    \/ \E s \in States \cup {Qnil} : CallbackReturn(s)
    \/ CallbackRaise
    \/ Memory_Profiler_Capture_start
    \/ Memory_Profiler_Capture_stop
    \/ \E k \in Classes, cb \in Callbacks \cup {Qnil} : Memory_Profiler_Capture_track(k, cb)
    \/ \E k \in Classes : Memory_Profiler_Capture_untrack(k)
    \/ Memory_Profiler_Capture_clear
    \/ Memory_Tracker_Capture_start
    \/ Memory_Tracker_Capture_stop
    \/ \E k \in Classes, cb \in Callbacks \cup {Qnil} : Memory_Tracker_Capture_track(k, cb)
    \/ \E k \in Classes : Memory_Tracker_Capture_untrack(k)
    \/ Memory_Tracker_Capture_clear
    \/ \E a \in DOMAIN records : ReclaimRecord(a)

Spec == Init /\ [][Next]_vars

\* ------------------------------------------------------------------ properties
\* What the capture under test reports as the live count of a class.
CountFor(klass) ==
    IF ext = "profiler" THEN Memory_Profiler_Capture_count_for(klass)
    ELSE Memory_Tracker_Capture_count_for(klass)

\* max(0, new_count - free_count) over the integers.
LiveCount(record) ==
    IF record.new_count - record.free_count > 0
    THEN record.new_count - record.free_count
    ELSE 0

\* C1: count_for(type) and Allocations#retained_count equal
\* max(0, new_count - free_count), also when frees outnumber allocations (never
\* negative, never wrapped), and count_for of a type with no record is 0.
C1_LiveCountClamped ==
    /\ \A k \in Classes :
          CountFor(k) = IF tracked_classes[k] = 0 THEN 0
                        ELSE LiveCount(records[tracked_classes[k]])
    /\ \A a \in DOMAIN records :
          Memory_Profiler_Allocations_retained_count(a) = LiveCount(records[a])

\* Frees outnumber allocations on a record of the profiler, and another class has
\* no record.
C1_Witness ==
    /\ ext = "profiler"
    /\ \E k \in Classes :
          /\ tracked_classes[k] # 0
          /\ records[tracked_classes[k]].free_count > records[tracked_classes[k]].new_count
    /\ \E k \in Classes : tracked_classes[k] = 0

\* No drain started between the hook events a and b of the trace.
NoDrainBetween(a, b) == \A d \in a..b : observed[d].event # "drain"

\* No callback has raised so far.
NoRaise == \A i \in DOMAIN log : log[i].result # "raised"

C3_FifoReplay ==
    (ext = "profiler" /\ NoRaise) =>
        \A i \in DOMAIN log, j \in DOMAIN log :
            (i < j /\ log[i].seq > log[j].seq) =>
                \E h \in 1..(i - 1) : log[h].seq = log[j].seq

\* The ordinals of the events whose callbacks the log records from index `from` on.
Replayed(lg, from) == [i \in 1..(Len(lg) - from) |-> lg[from + i].seq]

\* stop() returns Qtrue in this step, having found the queues empty.
StopReturnsAtOnce ==
    /\ ext = "profiler" /\ nsteps' = nsteps + 1 /\ running = 1
    /\ ret'.op = "stop" /\ ret'.state = "returned" /\ ret'.n = nsteps'

\* stop() returns Qtrue in this step, after its flush has run callbacks.
StopReturnsAfterFlush ==
    /\ ext = "profiler" /\ ret.op = "stop" /\ ret.state = "active"
    /\ ret'.op = "stop" /\ ret'.state = "returned"

\* C4: stop() on a running controller with N events pending (events whose type has a
\* callback) performs exactly N callback invocations, in queue order, before it
\* returns; after it has returned the queues are empty and the hooks removed, and
\* until start() no callback is invoked and no counter changes for any allocation or
\* free.
C4_StopFlushesPending ==
    [][ /\ StopReturnsAtOnce => (Pending = << >> /\ log' = log)
        /\ StopReturnsAfterFlush => Replayed(log', stack[1].log0) = stack[1].pending
        /\ (ext = "profiler" /\ running' = 0) =>
               /\ hooks' = 0 /\ newobj_queue' = << >> /\ freeobj_queue' = << >>
        /\ (ext = "profiler" /\ running = 0 /\ running' = 0) =>
               /\ log' = log
               /\ obj_class' # obj_class =>
                      (records' = records /\ tracked_classes' = tracked_classes)
      ]_vars

\* C5: a hook event delivered while a drain is active (a callback allocating, or
\* causing a free) is not queued, triggers no job, runs no callback and starts no
\* activation of process_queues; every callback a pass runs is for an event queued
\* before the pass started; at no time is more than one activation of
\* process_queues on the stack.
C5_NoRecursiveDrain ==
    [][ /\ (Len(stack) > 0 /\ obj_class' # obj_class) =>
               UNCHANGED <<newobj_queue, freeobj_queue, job_pending, stack, log>>
        /\ (ext = "profiler" /\ Len(log') > Len(log)) =>
               log'[Len(log')].seq <= stack'[Len(stack')].start
        /\ Len(stack') <= 1
      ]_vars

\* C6: every invocation of a user callback happens inside process_queues (the
\* postponed job or the flush of stop()), never inside the allocation or free hook.
C6_CallbackOnlyInDrain ==
    \A i \in DOMAIN log : log[i].ctx = "process_queues"

\* The callback that is running in this state raises in this step.
Raises ==
    \E i \in DOMAIN log : log[i].result = "running" /\ log'[i].result = "raised"

\* C7: an exception raised by a callback does not leave the drain: the activation
\* either goes on with a later event of the pass or ends with both queues empty and
\* the enabled flag restored to its value before the drain.
C7_RaiseIsSuppressed ==
    [][ Raises =>
          \/ /\ Len(stack') = Len(stack)
             /\ stack'[Len(stack')].incb
             /\ Len(log') = Len(log) + 1
          \/ /\ Len(stack') = Len(stack) - 1
             /\ newobj_queue' = << >> /\ freeobj_queue' = << >>
             /\ enabled' = IF stack[Len(stack)].kind = "stop" THEN 0
                            ELSE stack[Len(stack)].was_enabled
      ]_vars

\* Number of hook events `event` delivered for `klass` after the first `from`
\* entries of the trace.
Delivered(event, klass, from) ==
    Cardinality({i \in (from + 1)..Len(observed) :
                    observed[i].event = event /\ observed[i].klass = klass})

\* C8: new_count and free_count of the record of a type equal the number of
\* allocation and free hook events delivered for the type since the record was
\* created or last cleared: every delivered event counts exactly once, also while
\* the controller is paused and when the event is not queued.
C8_CountersCountHooks ==
    \A k \in Classes :
        tracked_classes[k] # 0 =>
            LET record == records[tracked_classes[k]]
            IN /\ record.new_count = Delivered("newobj", k, record.born)
               /\ record.free_count = Delivered("freeobj", k, record.born)

\* Inside a callback of a drain an allocation and a free of a tracked type with a
\* callback have been delivered and not accepted.
C8_Witness ==
    /\ InCallback
    /\ \E a \in DOMAIN observed, b \in DOMAIN observed :
          /\ observed[a].event = "newobj" /\ observed[b].event = "freeobj"
          /\ observed[a].seq > Top.start /\ observed[b].seq > Top.start
          /\ observed[a].callback # Qnil /\ observed[b].callback # Qnil
          /\ ~observed[a].accepted /\ ~observed[b].accepted

\* Whether the controller under test is running.
IsRunning == IF ext = "profiler" THEN running = 1 ELSE enabled = 1

\* start() is called in this step.
StartCall == nsteps' = nsteps + 1 /\ ret'.op = "start" /\ ret'.n = nsteps'

\* stop() is called in this step.
StopCall == nsteps' = nsteps + 1 /\ ret'.op = "stop" /\ ret'.n = nsteps'

\* A stop() called on a running controller ends in this step.
StopEnds ==
    /\ ret'.op = "stop" /\ (ret'.ok \/ ret'.state = "raised")
    /\ (StopCall /\ ret'.state # "active") \/ (ret.state = "active" /\ ret'.state # "active")

\* The step leaves the controller and its bookkeeping as they are.
NoEffect ==
    UNCHANGED <<obj_class, hooks, tracked_classes, records, running, enabled,
                newobj_queue, freeobj_queue, job_pending, stack, log, observed>>

\* C9: start() on a running controller and stop() on a controller that is not
\* running return false and change nothing; start() on a controller that is not
\* running installs the hooks once and sets running and enabled; stop() on a running
\* controller removes the hooks and clears running and enabled.
C9_StartStopIdempotent ==
    [][ /\ (StartCall /\ IsRunning) => (~ret'.ok /\ NoEffect)
        /\ (StartCall /\ ~IsRunning) =>
               (ret'.ok /\ hooks = 0 /\ hooks' = 1 /\ IsRunning' /\ enabled' = 1)
        /\ (StopCall /\ ~IsRunning) =>
               (~ret'.ok /\ ret'.state = "returned" /\ NoEffect)
        /\ (StopCall /\ IsRunning) => hooks' = 0
        /\ StopEnds => (hooks' = 0 /\ ~IsRunning' /\ enabled' = 0)
      ]_vars

\* track() of the profiler is called in this step.
TrackCall ==
    /\ ext = "profiler" /\ nsteps' = nsteps + 1
    /\ ret'.op = "track" /\ ret'.n = nsteps'

\* C10: track(type, callback) on a type without a record creates a record with
\* new_count = 0, free_count = 0, no stored states and the given callback; on a
\* type with a record it replaces the callback and nothing else of the record; it
\* changes no other record, returns the handle that [] returns for the type, and
\* tracking?(type) is true afterwards.
C10_TrackCreatesOrReplaces ==
    [][ \A k \in Classes : (TrackCall /\ ret'.klass = k) =>
          LET h == ret'.handle
          IN /\ h = (Memory_Profiler_Capture_aref(k))'
             /\ h # 0
             /\ (Memory_Profiler_Capture_tracking_p(k))'
             /\ \A c \in Classes \ {k} : tracked_classes'[c] = tracked_classes[c]
             /\ IF tracked_classes[k] = 0
                THEN /\ h = Len(records) + 1
                     /\ Len(records') = Len(records) + 1
                     /\ \A a \in DOMAIN records : records'[a] = records[a]
                     /\ records'[h].new_count = 0
                     /\ records'[h].free_count = 0
                     /\ records'[h].callback = ret'.callback
                     /\ records'[h].object_states = NoStates
                ELSE /\ h = tracked_classes[k]
                     /\ records' = [records EXCEPT ![h].callback = ret'.callback]
      ]_vars

\* track() has just replaced the callback of a record that has counted an
\* allocation and holds a stored state.
C10_Witness ==
    /\ ext = "profiler"
    /\ ret.op = "track" /\ ret.n = nsteps /\ ret.handle # 0
    /\ records[ret.handle].new_count > 0
    /\ \E o \in Objects : records[ret.handle].object_states[o] # Qnil
    /\ records[ret.handle].callback = ret.callback
    /\ \E i \in DOMAIN log : log[i].cb # ret.callback


UntrackCall ==
    /\ ext = "profiler" /\ nsteps' = nsteps + 1
    /\ ret'.op = "untrack" /\ ret'.n = nsteps'

\* Every record that a queued event, or the event being processed, refers to is
\* still allocated: the drain reads and writes only records that exist.
PendingRecordsLive ==
    /\ \A i \in DOMAIN newobj_queue : records[newobj_queue[i].allocations].live
    /\ \A i \in DOMAIN freeobj_queue : records[freeobj_queue[i].allocations].live
    /\ \A d \in DOMAIN stack :
          stack[d].incb => records[stack[d].item.allocations].live

\* C11: untrack(type) in any controller state, also while running with events of
\* the type pending or from inside a callback: right afterwards tracking?(type) is
\* false and count_for(type) is 0, no record and no other type's entry has
\* changed, the queues are untouched, and the records the pending events refer to
\* stay allocated, so the later drain processes them; untrack of a type without a
\* record changes nothing.
C11_UntrackAnyState ==
    [][ /\ PendingRecordsLive'
        /\ \A k \in Classes : (UntrackCall /\ ret'.klass = k) =>
              /\ ~(Memory_Profiler_Capture_tracking_p(k))'
              /\ (Memory_Profiler_Capture_count_for(k))' = 0
              /\ \A c \in Classes \ {k} : tracked_classes'[c] = tracked_classes[c]
              /\ UNCHANGED <<records, running, enabled, hooks, newobj_queue,
                             freeobj_queue, job_pending, stack, log, observed>>
              /\ (tracked_classes[k] = 0 => NoEffect)
      ]_vars

\* A type was untracked while the controller was running and an event of the type
\* was pending; a drain that ran after the untrack has called the callback for that
\* event and stored the state it returned in the untracked record.
C11_Witness ==
    /\ ext = "profiler"
    /\ AtTopLevel
    /\ newobj_queue = << >> /\ freeobj_queue = << >>
    /\ \E k \in Classes, i \in DOMAIN log :
          /\ tracked_classes[k] = 0
          /\ log[i].klass = k
          /\ log[i].event = "newobj"
          /\ log[i].result \in States
          /\ ret.op = "untrack" /\ ret.klass = k
          /\ log[i].seq < ret.n /\ ret.n <= log[i].at
          /\ \E a \in DOMAIN records :
                /\ records[a].live
                /\ records[a].object_states[log[i].object] = log[i].result
                /\ ~RecordMarked(a)


\* Mutant: statistics reports the allocations counted for the type.
Mutant_statistics_counts_allocations(klass) ==
    IF tracked_classes[klass] # 0
    THEN records[tracked_classes[klass]].new_count
    ELSE 0

\* statistics[:tracked_objects_per_class][klass]: the number of entries of the
\* record's object_states table (0 for a type without entry, which the hash of the
\* result does not list).
Memory_Profiler_Capture_statistics(klass) ==
    IF tracked_classes[klass] # 0
    THEN LET record == records[tracked_classes[klass]]
         IN IF record.states_alloc
            THEN Cardinality({o \in Objects : record.object_states[o] # Qnil})
            ELSE 0
    ELSE 0

\* Nothing is queued and no drain is running.
Quiescent == AtTopLevel /\ newobj_queue = << >> /\ freeobj_queue = << >>

\* klass has a record with a callback, every hook event of klass since the record
\* was created met a callback, and every call of a callback for an allocation of
\* klass returned a state.
TrackedReturningState(klass) ==
    /\ ext = "profiler"
    /\ tracked_classes[klass] # 0
    /\ records[tracked_classes[klass]].callback # Qnil
    /\ \A i \in (records[tracked_classes[klass]].born + 1)..Len(observed) :
          observed[i].klass = klass => observed[i].callback # Qnil
    /\ \A i \in DOMAIN log :
          (log[i].klass = klass /\ log[i].event = "newobj") => log[i].result \in States

\* Every hook event of klass since the record was created was queued, the callback
\* was called for every allocation among them, and every free among them is of an
\* object whose allocation is among them.
AllAccepted(klass) ==
    LET born == records[tracked_classes[klass]].born
    IN \A i \in (born + 1)..Len(observed) :
          observed[i].klass = klass =>
              /\ observed[i].accepted
              /\ observed[i].event = "newobj" =>
                    \E c \in DOMAIN log :
                        /\ log[c].event = "newobj"
                        /\ log[c].seq = observed[i].seq
              /\ observed[i].event = "freeobj" =>
                    \E a \in (born + 1)..(i - 1) :
                        /\ observed[a].event = "newobj"
                        /\ observed[a].object = observed[i].object
                        /\ observed[a].klass = klass
                        /\ \A f \in (a + 1)..(i - 1) :
                              observed[f].object # observed[i].object

StatisticsMatch(klass) ==
    LET born == records[tracked_classes[klass]].born
    IN /\ Memory_Profiler_Capture_statistics(klass)
            = Memory_Profiler_Capture_count_for(klass)
       /\ Memory_Profiler_Capture_count_for(klass)
            = Delivered("newobj", klass, born) - Delivered("freeobj", klass, born)

\* The record of klass has not been reset by clear().
NotCleared(klass) == ~records[tracked_classes[klass]].cleared

FoundAsWritten(t, k, written) ==
    LET i == Memory_Profiler_Object_Table_lookup(t, k)
    IN /\ i # -1
       /\ t.entries[i].object = k
       /\ t.entries[i].klass = written.klass
       /\ t.entries[i].data = written.data

NotFound(t, k) == Memory_Profiler_Object_Table_lookup(t, k) = -1

\* The slots that the probe sequence of insert(object) examines in table t.
RECURSIVE ProbeSlotsFrom(_, _, _, _)
ProbeSlotsFrom(t, object, index, left) ==
    IF left = 0 THEN {}
    ELSE IF t.entries[index].object = 0 \/ t.entries[index].object = object
    THEN {index}
    ELSE {index} \cup ProbeSlotsFrom(t, object, (index + 1) % t.capacity, left - 1)

ProbeSlots(t, object) ==
    ProbeSlotsFrom(t, object, hash_object(object, t.capacity), t.capacity)

InsertCall == tret'.n = tret.n + 1 /\ tret'.op = "insert"

DeleteCall == tret'.n = tret.n + 1 /\ tret'.op = "delete"

\* delete(k) directly after insert(k): lookup(k) is not-found and every other key
\* that was inserted and not deleted is still found with its metadata.
DeleteAfterInsert ==
    \A k \in Addrs :
        (DeleteCall /\ tret'.object = k /\ tret.op = "insert" /\ tret.object = k) =>
            /\ NotFound(table', k)
            /\ \A j \in Addrs \ {k} :
                  shadow[j].present => FoundAsWritten(table', j, shadow[j])

\* The insert that follows insert(k), delete(k), of a key that is not in the table
\* and whose probe sequence examines the slot k was deleted from: it takes that
\* slot, tombstones decreases by 1 and the capacity stays.
InsertReusesTombstone ==
    \A j \in Addrs :
        ( /\ InsertCall /\ tret'.object = j
          /\ tret.op = "delete" /\ tret.found
          /\ tret.prev_op = "insert" /\ tret.prev_object = tret.object
          /\ NotFound(table, j)
          /\ tret.index \in ProbeSlots(table, j) ) =>
            /\ tret'.index = tret.index
            /\ table'.entries[tret.index].object = j
            /\ table'.tombstones = table.tombstones - 1
            /\ table'.capacity = table.capacity

\* C12: after insert(k) followed by delete(k), lookup(k) is not-found while every
\* other present key is still found with its metadata; a following insert of a key
\* that probes through the deleted slot reuses that tombstone slot, tombstones
\* decreases by 1 and the capacity does not change.
C12_InsertDeleteReuse == [][DeleteAfterInsert /\ InsertReusesTombstone]_vars

\* The first half of C12 alone.
C12_OthersStillFound == [][DeleteAfterInsert]_vars

\* The first half of C12 while every allocation of the table has succeeded.
C12_OthersStillFoundWhileAllocationsSucceed ==
    [][tret'.failures = 0 => DeleteAfterInsert]_vars

\* The second half of C12 alone.
C12_ReuseAlways == [][InsertReusesTombstone]_vars

\* The second half of C12 when the load factor is not exceeded on entry to the
\* insert, so that insert does not resize.
C12_ReuseBelowLoadFactor ==
    [][~LoadExceeded(table) => InsertReusesTombstone]_vars

RoundTrip ==
    \A k \in Addrs :
        IF shadow[k].present THEN FoundAsWritten(table, k, shadow[k]) ELSE NotFound(table, k)

\* C13: after any sequence of inserts and deletes, with the resizes they cause,
\* lookup(k) returns an entry with key k and the metadata last written for k
\* exactly when k was inserted and not deleted since.
C13_RoundTrip == tret.compactions = 0 => RoundTrip

\* The same while every allocation of the table has succeeded.
C13_RoundTripWhileAllocationsSucceed ==
    (tret.compactions = 0 /\ tret.failures = 0) => RoundTrip

\* Two keys that hash to the same slot are both found, one of them past a
\* tombstone, after a resize.
C13_Witness ==
    /\ tret.compactions = 0 /\ tret.failures = 0
    /\ table.capacity > InitialCapacity
    /\ table.tombstones > 0
    /\ RoundTrip
    /\ \E a, b \in Addrs :
          /\ a # b /\ shadow[a].present /\ shadow[b].present
          /\ hash_object(a, table.capacity) = hash_object(b, table.capacity)


CompactCall == tret'.n = tret.n + 1 /\ tret'.op \in {"compact", "compact_moved"}

\* The entry of slot i of table t with its metadata handles relocated.
RelocatedMeta(t, i, loc) ==
    [klass |-> rb_gc_location(loc, t.entries[i].klass),
     data |-> rb_gc_location(loc, t.entries[i].data)]

\* compact() when no key moved: every lookup returns the slot it returned before,
\* and the entry holds the relocated metadata handles.
CompactUnmoved ==
    (CompactCall /\ tret'.op = "compact") =>
        \A k \in Addrs :
            LET i == Memory_Profiler_Object_Table_lookup(table, k)
            IN /\ Memory_Profiler_Object_Table_lookup(table', k) = i
               /\ i # -1 => FoundAsWritten(table', k, RelocatedMeta(table, i, tret'.loc))

\* compact() when some key moved: the entry stored under a is found under r(a)
\* with its metadata handles relocated, and count is unchanged.
CompactMoved ==
    (CompactCall /\ tret'.op = "compact_moved") =>
        /\ table'.heap_ok
        /\ table'.count = table.count
        /\ \A a \in Addrs :
              LET i == Memory_Profiler_Object_Table_lookup(table, a)
              IN i # -1 => FoundAsWritten(table', rb_gc_location(tret'.loc, a),
                                          RelocatedMeta(table, i, tret'.loc))

\* C14: compact() with no key moved leaves every lookup as it was; with keys
\* relocated by an injective r, lookup(r(a)) finds the entry that was stored under
\* a with its metadata handles relocated and count is unchanged; both hold for
\* every compaction, so also for a second one with further moves.
C14_Compact == [][CompactUnmoved /\ CompactMoved]_vars

\* The same while every allocation of the table, that of compact() included, has
\* succeeded.
C14_CompactWhileAllocationsSucceed ==
    [][tret'.failures = 0 => (CompactUnmoved /\ CompactMoved)]_vars

\* ------------------------------------------------------------------ C16
\* The hook event this step delivers (the last entry of the trace after the step).
Hooked == observed'[Len(observed')]

\* This step delivers a hook event to the profiler's capture.
HookStep ==
    /\ ext = "profiler"
    /\ Len(observed') = Len(observed) + 1
    /\ Hooked.event \in {"newobj", "freeobj"}

\* The handler of this step calls Memory_Profiler_Queue_push: the capture is enabled,
\* the class has a callback and, for FREEOBJ, a state is stored for the object.
PushAttempted ==
    /\ HookStep
    /\ enabled = 1
    /\ Hooked.callback # Qnil
    /\ Hooked.event = "freeobj" =>
           LET record == records[tracked_classes[Hooked.klass]]
           IN record.states_alloc /\ record.object_states[Hooked.object] # Qnil

\* The record's counter of the event's kind is one more after the step.
CounterIncremented ==
    LET allocations == tracked_classes[Hooked.klass]
    IN IF Hooked.event = "newobj"
       THEN records'[allocations].new_count = SizeAdd(records[allocations].new_count, 1)
       ELSE records'[allocations].free_count = SizeAdd(records[allocations].free_count, 1)

\* The event is queued behind the events already queued and the job is triggered.
EventQueued ==
    LET allocations == tracked_classes[Hooked.klass]
    IN /\ job_pending'
       /\ IF Hooked.event = "newobj"
          THEN /\ newobj_queue' = Append(newobj_queue,
                       Item(Hooked.klass, allocations, Hooked.object, Qnil, Hooked.seq))
               /\ freeobj_queue' = freeobj_queue
          ELSE /\ freeobj_queue' = Append(freeobj_queue,
                       Item(Hooked.klass, allocations, Hooked.object,
                            records[allocations].object_states[Hooked.object], Hooked.seq))
               /\ newobj_queue' = newobj_queue

\* C16: when Memory_Profiler_Queue_push gives no slot inside the NEWOBJ or FREEOBJ
\* handler the event is dropped silently: the handler returns with no error (no call
\* is left by an exception, the flags and the drains in progress are as before), the
\* counter of the class has been incremented, the postponed job is not triggered,
\* and both queues are unchanged; an event whose push gives a slot is queued and
\* triggers the job, also after events have been dropped.
C16_PushFailureDropsEvent ==
    [][PushAttempted =>
          /\ CounterIncremented
          /\ IF Hooked.accepted
             THEN EventQueued
             ELSE /\ newobj_queue' = newobj_queue
                  /\ freeobj_queue' = freeobj_queue
                  /\ job_pending' = job_pending
          /\ UNCHANGED <<tracked_classes, running, enabled, hooks, stack, log, ret>>]_vars

\* An event was queued, then an event was dropped while the first was still queued
\* (no drain had started), and an event delivered after the dropped one is queued.
C16_Witness ==
    /\ ext = "profiler"
    /\ \E i, j, k \in DOMAIN observed :
          /\ i < j /\ j < k
          /\ observed[i].accepted
          /\ observed[j].event = "newobj"
          /\ observed[j].callback # Qnil
          /\ ~observed[j].accepted
          /\ \A d \in 1..j : observed[d].event # "drain"
          /\ observed[k].accepted
          /\ \/ \E x \in DOMAIN newobj_queue : newobj_queue[x].seq = observed[k].seq
             \/ \E x \in DOMAIN freeobj_queue : freeobj_queue[x].seq = observed[k].seq

\* ------------------------------------------------------------------ C17
\* clear() is called in this step.
ClearCall == nsteps' = nsteps + 1 /\ ret'.op = "clear" /\ ret'.n = nsteps'

\* C17: clear() called while the controller is running fails at once with an error
\* and leaves the counts, the callbacks, the stored states and the queues as they
\* were.
C17_ClearWhileRunningFails ==
    [][(ClearCall /\ IsRunning) => (ret'.state = "raised" /\ NoEffect)]_vars

\* ------------------------------------------------------------------ C18
\* The host starts a run of the postponed job in this step.
JobStarts ==
    /\ ext = "profiler"
    /\ Len(observed') = Len(observed) + 1
    /\ Hooked.event = "drain"
    /\ ~StopCall

\* A run of the postponed job ends in this step: a run that has called a callback
\* leaves the stack, or a run that finds nothing to call starts and ends at once.
JobEnds ==
    \/ Len(stack) > 0 /\ Top.kind = "job" /\ stack' = SubSeq(stack, 1, Len(stack) - 1)
    \/ JobStarts /\ stack' = stack

\* The ordinals of the events that were queued for a callback when the run that
\* ends in this step started.
QueuedAtStart ==
    IF JobStarts THEN {Pending[i] : i \in DOMAIN Pending}
    ELSE {Top.pending[i] : i \in DOMAIN Top.pending}

\* The last environment step before the run that ends in this step started.
StartOfRun == IF JobStarts THEN nsteps ELSE Top.start

\* Number of calls of a callback for the event of ordinal seq.
TimesCalled(lg, seq) == Cardinality({i \in DOMAIN lg : lg[i].seq = seq})

\* When this step ends a run of the job: every event queued before the run started
\* has had its callback called exactly once, and what is queued was queued during
\* the run.
RunProcessedAll ==
    JobEnds =>
        /\ \A seq \in QueuedAtStart : TimesCalled(log', seq) = 1
        /\ \A i \in DOMAIN newobj_queue' : newobj_queue'[i].seq > StartOfRun
        /\ \A i \in DOMAIN freeobj_queue' : freeobj_queue'[i].seq > StartOfRun

\* C18: triggers coalesce. A run of the job starts only when a trigger is pending and
\* consumes every trigger issued since the run before it, however many there were;
\* when the run ends every event queued before it started has been processed
\* exactly once and the queues hold only events queued during the run.
C18_TriggersCoalesce ==
    [][ /\ JobStarts => (job_pending /\ ~job_pending')
        /\ RunProcessedAll
      ]_vars

\* The same for runs of the job in behaviours in which no callback raises and no run
\* of the job is nested in the flush of stop().
C18_TriggersCoalesceInPlainRuns ==
    [][ (NoRaise' /\ Len(stack) <= 1 /\ Len(stack') <= 1) =>
          /\ JobStarts => (job_pending /\ ~job_pending')
          /\ RunProcessedAll
      ]_vars

\* ------------------------------------------------------------------ C19
\* The host runs a triggered postponed job at its next safe point, and a callback
\* that has been called comes to an end.
LiveSpec ==
    /\ Init
    /\ [][Next]_vars
    /\ WF_vars(PostponedJob)
    /\ WF_vars(\E s \in States \cup {Qnil} : CallbackReturn(s))

\* The event of ordinal seq is in one of the queues.
InQueue(seq) ==
    \/ \E i \in DOMAIN newobj_queue : newobj_queue[i].seq = seq
    \/ \E i \in DOMAIN freeobj_queue : freeobj_queue[i].seq = seq

\* A drain has dealt with the event of ordinal seq: it has called the callback for
\* it, or has passed it over (its record has no callback any more) and cleared it.
Processed(seq) == TimesCalled(log, seq) >= 1 \/ ~InQueue(seq)

\* C19: every event that was queued is eventually processed by a drain, when the
\* host runs the job after each trigger and callbacks come to an end.
C19_QueuedEventuallyProcessed ==
    \A seq \in 1..MaxSteps : InQueue(seq) ~> Processed(seq)

\* The same for behaviours in which no callback raises.
C19_QueuedEventuallyProcessedUnlessRaise ==
    \A seq \in 1..MaxSteps : InQueue(seq) ~> (Processed(seq) \/ ~NoRaise)

\* ------------------------------------------------------------------ C20
\* In the records recs, the record the item was queued with holds an entry for the
\* item's object.
HasEntry(recs, item) ==
    /\ recs[item.allocations].states_alloc
    /\ recs[item.allocations].object_states[item.object] # Qnil

\* A drain comes to the end of newobj_queue and clears it in this step.
NewobjQueueProcessed == newobj_queue # << >> /\ newobj_queue' = << >>

\* C20: processing an Allocated event always leaves an entry under the object, also
\* when the type has no callback or the callback returns nil: when a drain has
\* processed the queued Allocated events, each of their objects has an entry.
C20_AllocatedLeavesEntry ==
    [][NewobjQueueProcessed =>
          \A i \in DOMAIN newobj_queue : HasEntry(records', newobj_queue[i])]_vars

\* What the drain does store: a state other than nil that the callback returns for
\* an Allocated event is under the object when the callback has returned.
C20_ReturnedStateIsStored ==
    [][(InCallback /\ Top.phase = "newobj" /\ log[Top.logix].result = "running"
           /\ log'[Top.logix].result \in States) =>
          /\ HasEntry(records', Top.item)
          /\ records'[Top.item.allocations].object_states[Top.item.object]
                 = log'[Top.logix].result]_vars

\* ------------------------------------------------------------------ C21
\* The calls of a callback with (type, Freed, payload) in the log lg.
FreedCalls(lg) == {i \in DOMAIN lg : lg[i].event = "freeobj"}

\* This step delivers FREEOBJ for an object of a class that has a record.
FreeHandled ==
    /\ HookStep
    /\ Hooked.event = "freeobj"
    /\ tracked_classes[Hooked.klass] # 0

\* The state stored under the object of the FREEOBJ event of this step, Qnil when
\* there is none.
StoredForFreed ==
    LET record == records[tracked_classes[Hooked.klass]]
    IN IF record.states_alloc THEN record.object_states[Hooked.object] ELSE Qnil

\* Every Freed call carries a stored value and goes to a registered callback.
FreedCallsCarryState(lg) ==
    \A i \in FreedCalls(lg) : lg[i].payload \in States /\ lg[i].cb # Qnil

\* No free event is delivered to more than one Freed call.
FreedAtMostOnce(lg) ==
    \A i, j \in FreedCalls(lg) : i # j => lg[i].seq # lg[j].seq

\* C21: a Freed callback is called only with a value stored for the freed object
\* and only on a callback registered at the time of the call; the entry of an
\* object is removed when its free is handled; each stored value goes to at most
\* one Freed call; a free of an object with no stored value queues no call.
C21_FreedOnlyWithStoredValue ==
    [][ /\ FreedCallsCarryState(log')
        /\ FreedAtMostOnce(log')
        /\ FreeHandled =>
              /\ records'[tracked_classes[Hooked.klass]].object_states[Hooked.object] = Qnil
              /\ (StoredForFreed = Qnil => freeobj_queue' = freeobj_queue)
      ]_vars

\* The parts of C21 that hold in every behaviour: what a Freed call carries, no
\* call for a free without a stored value, and the removal of the entry by a free
\* handled while the capture is enabled and the class has a callback.
C21_FreedCarriesStoredState ==
    [][ /\ FreedCallsCarryState(log')
        /\ FreeHandled =>
              /\ (StoredForFreed = Qnil => freeobj_queue' = freeobj_queue)
              /\ (enabled = 1 /\ Hooked.callback # Qnil) =>
                    records'[tracked_classes[Hooked.klass]].object_states[Hooked.object] = Qnil
      ]_vars

\* A second Freed call for a free event is made only after a callback has raised, or
\* by a run of process_queues nested in another one.
C21_FreedTwiceOnlyByRaiseOrNesting ==
    [][(/\ Len(log') = Len(log) + 1
        /\ log'[Len(log')].event = "freeobj"
        /\ \E i \in FreedCalls(log) : log[i].seq = log'[Len(log')].seq)
          => (~NoRaise \/ Len(stack') > 1)]_vars

\* ------------------------------------------------------------------ C22
\* This step delivers the hook event `event` to the handlers of the capture.
Delivers(event) ==
    /\ Len(observed') = Len(observed) + 1
    /\ Hooked.event = event

\* No two types share a record.
OneRecordPerType ==
    \A k1, k2 \in Classes :
        (tracked_classes[k1] # 0 /\ tracked_classes[k1] = tracked_classes[k2]) => k1 = k2

\* C22: the first delivered allocation of a type without a record creates one
\* record for it, with new_count = 1, free_count = 0 and no callback, changes no
\* other record or type and queues nothing; a free of a type without a record
\* creates no record and changes no counter; a step creates a record only for a
\* type that has none, and no two types share a record.
C22_LazyRecordCreation ==
    [][ /\ (Delivers("newobj") /\ tracked_classes[Hooked.klass] = 0) =>
              LET h == tracked_classes'[Hooked.klass]
              IN /\ h = Len(records) + 1
                 /\ Len(records') = Len(records) + 1
                 /\ \A a \in DOMAIN records : records'[a] = records[a]
                 /\ \A c \in Classes \ {Hooked.klass} : tracked_classes'[c] = tracked_classes[c]
                 /\ records'[h].new_count = 1
                 /\ records'[h].free_count = 0
                 /\ records'[h].callback = Qnil
                 /\ records'[h].object_states = NoStates
                 /\ UNCHANGED <<newobj_queue, freeobj_queue, job_pending, log>>
        /\ (Delivers("freeobj") /\ tracked_classes[Hooked.klass] = 0) =>
              UNCHANGED <<records, tracked_classes, newobj_queue, freeobj_queue,
                          job_pending, log>>
        /\ Len(records') # Len(records) =>
              /\ Len(records') = Len(records) + 1
              /\ \E k \in Classes :
                    /\ tracked_classes[k] = 0
                    /\ tracked_classes'[k] = Len(records')
        /\ OneRecordPerType'
      ]_vars

\* The only record ever created was created by the first allocation of a type, and
\* a free has been delivered for another type, which never had a record.
C22_Witness ==
    \E k1, k2 \in Classes :
        /\ k1 # k2
        /\ Len(records) = 1
        /\ tracked_classes[k1] = 1
        /\ records[1].callback = Qnil /\ records[1].new_count = 1
        /\ Len(observed) > 0
        /\ observed[Len(observed)].event = "freeobj"
        /\ observed[Len(observed)].klass = k2

\* ------------------------------------------------------------------ C23
\* What the entry of key k in table t holds.
EntryOf(t, k) ==
    LET i == Memory_Profiler_Object_Table_lookup(t, k)
    IN [klass |-> t.entries[i].klass, data |-> t.entries[i].data]

\* The insert of this step has resized the table.
Resized == InsertCall /\ table'.capacity # table.capacity

\* After an insert that resized: the capacity is doubled, no tombstone is left,
\* count is its value on entry plus the key the insert added, and every key that was
\* found on entry is found with the metadata it had (the inserted key in the slot
\* that insert returns, for its caller to fill).
ResizeKeepsEntries ==
    Resized =>
        /\ table'.capacity = 2 * table.capacity
        /\ table'.tombstones = 0
        /\ table'.count = table.count + (IF tret'.found THEN 0 ELSE 1)
        /\ \A k \in Addrs :
              Memory_Profiler_Object_Table_lookup(table, k) # -1 =>
                  IF k = tret'.object
                  THEN Memory_Profiler_Object_Table_lookup(table', k) = tret'.index
                  ELSE FoundAsWritten(table', k, EntryOf(table, k))

\* C23: insert() doubles the capacity exactly when (count + tombstones) / capacity
\* > 0.5 holds on entry (and the allocation of the new array succeeds); after the
\* resize tombstones = 0, count is unchanged by the resize itself, and every key
\* that was occupied before is found by lookup with the same metadata.
C23_ResizeOnLoadFactor ==
    [][ /\ InsertCall =>
              (Resized <=> (LoadExceeded(table) /\ tret'.failures = tret.failures))
        /\ ResizeKeepsEntries
      ]_vars

\* The same while every allocation of the table has succeeded.
C23_ResizeWhileAllocationsSucceed ==
    [][ tret'.failures = 0 =>
          /\ InsertCall => (Resized <=> LoadExceeded(table))
          /\ ResizeKeepsEntries
      ]_vars


\* The step is a call of delete_entry.
DeleteEntryCall == tret'.n = tret.n + 1 /\ tret'.op = "delete_entry"

\* The slot `index` has become a tombstone without metadata, count is one less and
\* tombstones one more; the capacity, the strong counter and every other slot are
\* as they were.
Tombstoned(index) ==
    /\ table'.entries[index] = [object |-> TOMBSTONE, klass |-> 0, data |-> 0]
    /\ table'.count = table.count - 1
    /\ table'.tombstones = table.tombstones + 1
    /\ table' = [table EXCEPT !.entries[index] = table'.entries[index],
                              !.count = table'.count,
                              !.tombstones = table'.tombstones]

\* delete(k): an occupied key's slot is tombstoned, an absent key changes nothing,
\* and deleting k once more changes nothing.
DeleteEffect ==
    DeleteCall =>
        /\ IF Memory_Profiler_Object_Table_lookup(table, tret'.object) # -1
           THEN Tombstoned(Memory_Profiler_Object_Table_lookup(table, tret'.object))
           ELSE table' = table
        /\ Memory_Profiler_Object_Table_delete(table', tret'.object) = table'

\* delete_entry(e): an occupied entry is tombstoned; an entry that is empty, a
\* tombstone or outside the array changes nothing, and so does deleting e once more.
DeleteEntryEffect ==
    DeleteEntryCall =>
        /\ IF tret'.index \in 0..(table.capacity - 1) /\ Occupied(table.entries[tret'.index])
           THEN Tombstoned(tret'.index)
           ELSE table' = table
        /\ Memory_Profiler_Object_Table_delete_entry(table', tret'.index) = table'

\* C24: delete(k) and delete_entry(e) turn an occupied slot into a tombstone with
\* its metadata cleared, count one less and tombstones one more; for an absent key
\* and for an entry that is empty, a tombstone or outside the table the call changes
\* nothing, so that deleting twice equals deleting once.
C24_DeleteEffects == [][DeleteEffect /\ DeleteEntryEffect]_vars

\* The same while every allocation of the table has succeeded.
C24_DeleteEffectsWhileAllocationsSucceed ==
    [][tret'.failures = 0 => DeleteEffect /\ DeleteEntryEffect]_vars


\* The step is a call of lookup.
LookupCall == tret'.n = tret.n + 1 /\ tret'.op = "lookup"

MarkCall == tret'.n = tret.n + 1 /\ tret'.op = "mark"

\* The slots that hold a key.
OccupiedSlots(t) == {i \in 0..(t.capacity - 1) : Occupied(t.entries[i])}

\* C26: mark() reports the key of an occupied slot if and only if the strong
\* counter is > 0; it reports the non-null type and user-data handles of every
\* occupied slot in both modes; it reports nothing else, so nothing for an empty
\* or a tombstone slot (neither 0 nor the tombstone value is ever reported).
C26_MarkReports ==
    [][MarkCall =>
          /\ \A i \in OccupiedSlots(table) :
                /\ table.entries[i].object \in tret'.marked <=> table.strong > 0
                /\ table.entries[i].klass # 0 => table.entries[i].klass \in tret'.marked
                /\ table.entries[i].data # 0 => table.entries[i].data \in tret'.marked
          /\ \A v \in tret'.marked :
                /\ v # 0 /\ v # TOMBSTONE
                /\ \E i \in OccupiedSlots(table) :
                      v \in {table.entries[i].object, table.entries[i].klass,
                             table.entries[i].data}
          /\ table' = table
      ]_vars

\* mark() has run on a weak table that holds a key with metadata and a tombstone:
\* the metadata was reported, the key was not.
C26_Witness ==
    /\ tret.op = "mark"
    /\ table.strong = 0
    /\ table.tombstones >= 1
    /\ \E i \in OccupiedSlots(table) :
          /\ table.entries[i].klass \in tret.marked
          /\ table.entries[i].object \notin tret.marked

\* mark() has run on a strong table: the key was reported with its metadata.
C26_StrongWitness ==
    /\ tret.op = "mark"
    /\ table.strong > 0
    /\ \E i \in OccupiedSlots(table) :
          /\ table.entries[i].klass # 0
          /\ {table.entries[i].object, table.entries[i].klass} \subseteq tret.marked


IncrementStrongCall == tret'.n = tret.n + 1 /\ tret'.op = "increment_strong"

DecrementStrongCall == tret'.n = tret.n + 1 /\ tret'.op = "decrement_strong"

\* What a step does to the strong counter: increment_strong adds one,
\* decrement_strong takes one off a positive counter and leaves a zero counter,
\* neither touches anything else in the table, and no other operation changes the
\* counter.
StrongCounts ==
    /\ IncrementStrongCall => table' = [table EXCEPT !.strong = table.strong + 1]
    /\ DecrementStrongCall =>
          IF table.strong = 0 THEN table' = table
          ELSE table' = [table EXCEPT !.strong = table.strong - 1]
    /\ ~IncrementStrongCall /\ ~DecrementStrongCall => table'.strong = table.strong

\* C27: the strong counter is a reference count that clamps at zero: a new table
\* has strong = 0, the counter is >= 0 after any sequence of calls, and
\* decrement_strong at 0 changes nothing.
C27_StrongClampsAtZero ==
    /\ [](table.strong >= 0 /\ (tret.op = "new" => table.strong = 0))
    /\ [][StrongCounts]_vars

\* decrement_strong has been called on a new table, which is still weak.
C27_Witness ==
    /\ tret.op = "decrement_strong"
    /\ tret.n = 1
    /\ table.strong = 0

\* increment_strong twice and decrement_strong once leave the table strong.
C27_CountedWitness ==
    /\ tret.op = "decrement_strong"
    /\ tret.prev_op = "increment_strong"
    /\ tret.n = 3
    /\ table.strong = 1


\* The smaller of two numbers.
Min(a, b) == IF a < b THEN a ELSE b

\* The table has no empty slot: every slot holds a key or a tombstone.
NoEmptySlot(t) == \A i \in 0..(t.capacity - 1) : t.entries[i].object # 0

\* The probe of this step's lookup, delete or insert read at least one slot and at
\* most min(capacity, MAX_PROBE_LENGTH) slots of the array it searched (for insert,
\* the array after the resize).
ProbeBounded ==
    /\ LookupCall \/ DeleteCall =>
          tret'.probes \in 1..Min(table.capacity, MAX_PROBE_LENGTH)
    /\ InsertCall =>
          tret'.probes \in 1..Min(table'.capacity, MAX_PROBE_LENGTH)

\* A lookup of a key that no slot holds, in a table without an empty slot, reads
\* every slot once and returns NULL.
WrappedLookupNotFound ==
    ( /\ LookupCall
      /\ NoEmptySlot(table)
      /\ \A i \in 0..(table.capacity - 1) : table.entries[i].object # tret'.object ) =>
        /\ tret'.index = -1
        /\ ~tret'.found
        /\ tret'.probes = table.capacity

\* The positions in which the probe loops are entered near the hard cap: any slot
\* of the table, with the start slot up to two slots ahead (so that the wrap comes
\* before, at or after the cap), and with the cap already used up or one or two
\* probes left.
NearCap ==
    {[index |-> i, start |-> (i + ahead) % table.capacity, left |-> left] :
        i \in 0..(table.capacity - 1), ahead \in 0..2, left \in 0..2}

\* No slot beyond the cap is read by the loop of find_entry for key k, and at the
\* cap the result is not-found whatever the slot holds.
CapStopsLookup(k) ==
    \A p \in NearCap :
        LET probe == find_entry_from(table.entries, table.capacity, k, p.index, p.start,
                                     MAX_PROBE_LENGTH - p.left)
        IN probe.probes <= MAX_PROBE_LENGTH /\ (p.left = 0 => ~probe.found)

\* The same for the loop of find_insert_slot.
CapStopsInsert(k) ==
    \A p \in NearCap :
        LET probe == find_insert_slot_from(table, k, p.index, p.start, NoTombstone,
                                           MAX_PROBE_LENGTH - p.left)
        IN probe.probes <= MAX_PROBE_LENGTH /\ (p.left = 0 => ~probe.found)

\* C28: probing terminates: a lookup, delete or insert reads at most
\* min(capacity, MAX_PROBE_LENGTH) slots, and a lookup whose probe passes the hard
\* cap, or wraps around a table with no empty slot, returns not-found; the cap is
\* checked on the loop for the key of each lookup, delete and insert.
C28_ProbingTerminates ==
    [][ /\ ProbeBounded
        /\ WrappedLookupNotFound
        /\ (LookupCall \/ DeleteCall) => CapStopsLookup(tret'.object)
        /\ InsertCall => CapStopsInsert(tret'.object)
      ]_vars

\* A lookup has wrapped around a table without an empty slot and returned NULL.
C28_Witness ==
    /\ tret.op = "lookup"
    /\ ~tret.found
    /\ NoEmptySlot(table)
    /\ table.capacity >= 2
    /\ tret.probes = table.capacity


\* The collector has moved the key of some occupied slot: compact() takes its
\* expensive path.
KeyMoved ==
    \E i \in OccupiedSlots(table) :
        rb_gc_location(tret'.loc, table.entries[i].object) # table.entries[i].object

\* The entry of slot i of table t with all three handles relocated.
Image(t, i, loc) ==
    [object |-> rb_gc_location(loc, t.entries[i].object),
     klass |-> rb_gc_location(loc, t.entries[i].klass),
     data |-> rb_gc_location(loc, t.entries[i].data)]

\* The expensive path: no tombstone is left, count is what it was, and the occupied
\* slots hold exactly the relocated images of the entries that were occupied.
CompactExpensive ==
    (CompactCall /\ KeyMoved) =>
        /\ table'.tombstones = 0
        /\ table'.count = table.count
        /\ {table'.entries[i] : i \in OccupiedSlots(table')}
             = {Image(table, i, tret'.loc) : i \in OccupiedSlots(table)}
        /\ Cardinality(OccupiedSlots(table')) = Cardinality(OccupiedSlots(table))

\* The cheap path: count, tombstones and the slot of every key are unchanged.
CompactCheap ==
    (CompactCall /\ ~KeyMoved) =>
        /\ table'.count = table.count
        /\ table'.tombstones = table.tombstones
        /\ table'.capacity = table.capacity
        /\ \A i \in 0..(table.capacity - 1) :
              table'.entries[i].object = table.entries[i].object

\* C29: compact() on the expensive path (some key moved) leaves tombstones = 0,
\* count equal to its value before the call and exactly the relocated images of
\* the previously occupied entries; on the cheap path (no key moved) count,
\* tombstones and the slot of every key are unchanged.
C29_CompactPaths == [][CompactExpensive /\ CompactCheap]_vars

\* The same while every allocation of the table, that of compact() included, has
\* succeeded.
C29_CompactPathsWhileAllocationsSucceed ==
    [][tret'.failures = 0 => CompactExpensive /\ CompactCheap]_vars


\* ------------------------------------------------------------------ C30
\* The objects that are keys of some record's object_states table.
StoredKeys ==
    {o \in Objects : \E a \in DOMAIN records :
        records[a].states_alloc /\ records[a].object_states[o] # Qnil}

\* The hook events delivered for the object, by their place in the trace.
EventsOf(o) ==
    {i \in DOMAIN observed :
        observed[i].object = o /\ observed[i].event \in {"newobj", "freeobj"}}

\* The collector has reported the object reclaimed: the last hook event delivered
\* for it is FREEOBJ.
ReportedFreed(o) ==
    /\ EventsOf(o) # {}
    /\ observed[CHOOSE i \in EventsOf(o) : \A j \in EventsOf(o) : j <= i].event = "freeobj"

\* C30: no stale correlation entries: at every quiescent point (no drain active,
\* both queues empty) every key of a per-object state table is an object that was
\* allocated and has not been reported freed.
C30_NoStaleEntries == Quiescent => \A o \in StoredKeys : ~ReportedFreed(o)

\* The free of a stored object was reported while the controller was enabled and
\* the class had a callback: at the next quiescent point the entry is gone.
C30_NoStaleEntriesOfAcceptedFrees ==
    Quiescent =>
        \A o \in StoredKeys :
            ReportedFreed(o) =>
                LET last == CHOOSE i \in EventsOf(o) : \A j \in EventsOf(o) : j <= i
                IN observed[last].callback = Qnil \/ ~observed[last].accepted


\* ------------------------------------------------------------------ C34
\* The slots that hold the tombstone value.
TombstoneSlots(t) == {i \in 0..(t.capacity - 1) : t.entries[i].object = TOMBSTONE}

\* count is the number of occupied slots and tombstones the number of tombstone
\* slots; a counter that had underflowed would exceed the capacity.
CountersConsistent(t) ==
    /\ t.count = Cardinality(OccupiedSlots(t))
    /\ t.tombstones = Cardinality(TombstoneSlots(t))
    /\ t.count <= t.capacity
    /\ t.tombstones <= t.capacity

\* C34: after any sequence of insert, delete, delete_entry and compact, including
\* sequences in which an allocation of resize or compact fails, count equals the
\* number of occupied slots, tombstones equals the number of tombstone slots and
\* neither counter has underflowed.
C34_CountersConsistent == table.heap_ok => CountersConsistent(table)

\* The same while every allocation of the table has succeeded.
C34_CountersConsistentWhileAllocationsSucceed ==
    tret.failures = 0 => CountersConsistent(table)


\* ------------------------------------------------------------------ C35
\* The keys that some slot of the table holds.
KeysOf(t) == {t.entries[i].object : i \in OccupiedSlots(t)}

\* The step inserts a key that no slot held.
InsertsAbsentKey == InsertCall /\ tret'.object \notin KeysOf(table)

\* Every entry that was in the table is still in it, in some slot.
EntriesKept ==
    \A i \in OccupiedSlots(table) :
        \E j \in OccupiedSlots(table') : table'.entries[j] = table.entries[i]

\* C35: insert(k) for a key that is not present never overwrites or removes the
\* entry of another key: every entry that was present is present afterwards, and
\* when the array was not replaced the slot written held no key before; also when
\* the probe wraps around a table without an empty slot, as after a failed resize.
C35_InsertKeepsOthers ==
    [][InsertsAbsentKey =>
          /\ EntriesKept
          /\ table'.capacity = table.capacity => ~Occupied(table.entries[tret'.index])
      ]_vars

\* The same while every allocation of the table has succeeded.
C35_InsertKeepsOthersWhileAllocationsSucceed ==
    [][(InsertsAbsentKey /\ tret'.failures = 0) =>
          /\ EntriesKept
          /\ table'.capacity = table.capacity => ~Occupied(table.entries[tret'.index])
      ]_vars


\* ------------------------------------------------------------------ C38
\* No key is held by more than one slot.
KeysUnique(t) ==
    \A i, j \in OccupiedSlots(t) : t.entries[i].object = t.entries[j].object => i = j

\* The step inserts a key that some slot holds.
InsertsPresentKey == InsertCall /\ tret'.object \in KeysOf(table)

\* What the insert of this step returned, before its caller wrote into the entry.
InsertResult ==
    Memory_Profiler_Object_Table_insert(table, tret'.object, tret'.failures = tret.failures)

\* An insert of a present key returns the entry of the key, with its metadata, and
\* the caller's writes go to that entry only.
ReinsertFinds ==
    InsertsPresentKey =>
        /\ InsertResult.found
        /\ InsertResult.index = tret'.index
        /\ InsertResult.table.entries[tret'.index] =
              [object |-> tret'.object,
               klass |-> EntryOf(table, tret'.object).klass,
               data |-> EntryOf(table, tret'.object).data]
        /\ table' = [InsertResult.table EXCEPT
                        !.entries[tret'.index].klass = table'.entries[tret'.index].klass,
                        !.entries[tret'.index].data = table'.entries[tret'.index].data]

LoadBound(t) == t.count + t.tombstones <= (t.capacity \div 2) + 1

\* The probe for every address ends at an empty slot or at the slot of the
\* address, not by wrapping round to its start nor by the cap.
ProbeEnds(t) ==
    \A k \in Addrs :
        LET r == find_entry(t.entries, t.capacity, k)
        IN /\ t.entries[r.index].object \in {0, k}
           /\ r.found <=> t.entries[r.index].object = k

\* The counters are within the load bound and, from three slots on, some slot is
\* empty and every probe ends at an empty slot or at its key.
WithinLoad(t) ==
    /\ LoadBound(t)
    /\ t.capacity >= 3 => ~NoEmptySlot(t) /\ ProbeEnds(t)

\* C39: as long as every resize allocation succeeds, after every operation
\* count + tombstones <= floor(capacity / 2) + 1, so that a table of three slots
\* or more has an empty slot and every probe ends at an empty slot or at the key.
C39_LoadBound == tret.resize_failures = 0 => WithinLoad(table)

\* An insert has resized the table, its allocation succeeding, and has brought the
\* table of three slots or more to the bound exactly.
C39_Witness ==
    /\ tret.op = "insert"
    /\ ~tret.found
    /\ tret.resize_failures = 0
    /\ table.capacity > InitialCapacity
    /\ table.capacity >= 3
    /\ table.count + table.tombstones = (table.capacity \div 2) + 1
    /\ CountersConsistent(table)
    /\ WithinLoad(table)


\* ---------------------------------------------------------------------------
\* C31: the handles of queued events and the collector.

\* The items that Memory_Profiler_Capture_mark and Memory_Profiler_Capture_compact
\* walk: i = 0 .. count - 1 of each queue.
WalkedNewobj == DOMAIN newobj_queue

WalkedFreeobj == DOMAIN freeobj_queue

\* Memory_Profiler_Capture_mark: the handles it passes to rb_gc_mark and
\* rb_gc_mark_movable, by kind. nil is no heap object and is not reported.
Memory_Profiler_Capture_mark ==
    [klass |-> {k \in Classes : tracked_classes[k] # 0}
                 \cup {newobj_queue[i].klass : i \in WalkedNewobj}
                 \cup {freeobj_queue[i].klass : i \in WalkedFreeobj},
     allocations |-> {tracked_classes[k] : k \in {c \in Classes : tracked_classes[c] # 0}}
                 \cup {newobj_queue[i].allocations : i \in WalkedNewobj}
                 \cup {freeobj_queue[i].allocations : i \in WalkedFreeobj},
     object |-> {newobj_queue[i].object : i \in WalkedNewobj},
     state |-> {freeobj_queue[i].state : i \in WalkedFreeobj} \ {Qnil}]

\* The relocations a compacting collection reports: where each type, record
\* wrapper, object and state has moved to.
Locations ==
    {loc \in [klass : [Classes -> Classes],
              allocations : [DOMAIN records -> DOMAIN records],
              object : [Objects -> Objects], state : [States -> States]] :
        /\ \A a, b \in Classes : loc.klass[a] = loc.klass[b] => a = b
        /\ \A a, b \in DOMAIN records : loc.allocations[a] = loc.allocations[b] => a = b
        /\ \A a, b \in Objects : loc.object[a] = loc.object[b] => a = b
        /\ \A a, b \in States : loc.state[a] = loc.state[b] => a = b}

\* rb_gc_location of a handle of one kind.
Location(moves, value) == IF value \in DOMAIN moves THEN moves[value] ELSE value

\* Memory_Profiler_Capture_compact: both queues after the callback has rewritten
\* the items it walks.
Memory_Profiler_Capture_compact(loc) ==
    [newobj_queue |->
        [i \in DOMAIN newobj_queue |->
            IF i \in WalkedNewobj
            THEN [newobj_queue[i] EXCEPT !.klass = Location(loc.klass, @),
                                         !.allocations = Location(loc.allocations, @),
                                         !.object = Location(loc.object, @)]
            ELSE newobj_queue[i]],
     freeobj_queue |->
        [i \in DOMAIN freeobj_queue |->
            IF i \in WalkedFreeobj
            THEN [freeobj_queue[i] EXCEPT !.klass = Location(loc.klass, @),
                                          !.allocations = Location(loc.allocations, @),
                                          !.state = Location(loc.state, @)]
            ELSE freeobj_queue[i]]]

\* The items that a running pass of process_queues has gone past.
ProcessedNewobj ==
    {i \in DOMAIN newobj_queue :
        \E d \in DOMAIN stack : stack[d].phase = "freeobj" \/ i < stack[d].i}

ProcessedFreeobj ==
    {i \in DOMAIN freeobj_queue :
        \E d \in DOMAIN stack : stack[d].phase = "freeobj" /\ i < stack[d].i}

\* Every handle of a queued item that no pass has gone past is reported by mark.
UnprocessedMarked ==
    /\ \A i \in DOMAIN newobj_queue \ ProcessedNewobj :
          /\ newobj_queue[i].klass \in Memory_Profiler_Capture_mark.klass
          /\ newobj_queue[i].allocations \in Memory_Profiler_Capture_mark.allocations
          /\ newobj_queue[i].object \in Memory_Profiler_Capture_mark.object
    /\ \A i \in DOMAIN freeobj_queue \ ProcessedFreeobj :
          /\ freeobj_queue[i].klass \in Memory_Profiler_Capture_mark.klass
          /\ freeobj_queue[i].allocations \in Memory_Profiler_Capture_mark.allocations
          /\ freeobj_queue[i].state # Qnil =>
                freeobj_queue[i].state \in Memory_Profiler_Capture_mark.state

\* Every handle of such an item is replaced by its new location in compact.
UnprocessedRewritten ==
    \A loc \in Locations :
        LET after == Memory_Profiler_Capture_compact(loc)
        IN /\ \A i \in DOMAIN newobj_queue \ ProcessedNewobj :
                 /\ after.newobj_queue[i].klass = loc.klass[newobj_queue[i].klass]
                 /\ after.newobj_queue[i].allocations =
                       loc.allocations[newobj_queue[i].allocations]
                 /\ after.newobj_queue[i].object = loc.object[newobj_queue[i].object]
           /\ \A i \in DOMAIN freeobj_queue \ ProcessedFreeobj :
                 /\ after.freeobj_queue[i].klass = loc.klass[freeobj_queue[i].klass]
                 /\ after.freeobj_queue[i].allocations =
                       loc.allocations[freeobj_queue[i].allocations]
                 /\ freeobj_queue[i].state # Qnil =>
                       after.freeobj_queue[i].state = loc.state[freeobj_queue[i].state]

\* The host does not reclaim an object whose Allocated event no pass has gone past.
PendingNotReclaimed ==
    \A o \in Objects :
        (obj_class[o] # NoClass /\ obj_class'[o] = NoClass) =>
            \A i \in DOMAIN newobj_queue \ ProcessedNewobj : newobj_queue[i].object # o

\* The items a pass has gone past are walked by neither callback.
ProcessedNotWalked ==
    /\ ProcessedNewobj \cap WalkedNewobj = {}
    /\ ProcessedFreeobj \cap WalkedFreeobj = {}

\* C31: every handle (type, record, object or state) of a queued event that is not
\* yet processed is reported reachable by the mark callback and rewritten by the
\* compact callback, so that an object with a pending Allocated event is not
\* reclaimed before the event is processed; the events already processed in the
\* current pass are cleared and are neither marked nor rewritten.
C31_QueuedHandlesHeld ==
    /\ [](UnprocessedMarked /\ UnprocessedRewritten /\ ProcessedNotWalked)
    /\ [][PendingNotReclaimed]_vars

\* The part of C31 about the events not yet processed.
C31_UnprocessedHandlesHeld ==
    /\ [](UnprocessedMarked /\ UnprocessedRewritten)
    /\ [][PendingNotReclaimed]_vars


\* ---------------------------------------------------------------------------
\* C32: what a drain leaves behind.

\* A call of process_queues that finds no callback to call starts and returns in
\* this step.
DrainAtOnce ==
    /\ ext = "profiler"
    /\ Len(observed') = Len(observed) + 1
    /\ Hooked.event = "drain"
    /\ stack' = stack

\* A call of process_queues returns normally in this step.
DrainReturns ==
    \/ DrainAtOnce
    \/ /\ Len(stack) > 0
       /\ stack' = SubSeq(stack, 1, Len(stack) - 1)
       /\ ~Raises

\* Who called the drain that returns in this step, and the value of
\* capture->enabled when it started.
ReturningKind == IF DrainAtOnce THEN (IF StopCall THEN "stop" ELSE "job") ELSE Top.kind

EnabledAtStart == IF DrainAtOnce THEN enabled ELSE Top.was_enabled

\* A drain that returns leaves both queues empty and the flag as it found it; after
\* the flush of stop(), stop() itself clears the flag.
DrainLeaves ==
    DrainReturns =>
        /\ newobj_queue' = << >>
        /\ freeobj_queue' = << >>
        /\ ReturningKind = "job" => enabled' = EnabledAtStart
        /\ ReturningKind = "stop" => enabled' = 0

\* A hook event that arrives while a drain is running is counted and not queued.
HookInDrainNotQueued ==
    (HookStep /\ Len(stack) > 0) =>
        /\ UNCHANGED <<newobj_queue, freeobj_queue, job_pending, enabled>>
        /\ ~Hooked.accepted

ClearResets ==
    ClearCall =>
        /\ tracked_classes' = tracked_classes
        /\ \A k \in Classes :
              /\ tracked_classes[k] # 0 =>
                    /\ records'[tracked_classes[k]].new_count = 0
                    /\ records'[tracked_classes[k]].free_count = 0
                    /\ records'[tracked_classes[k]].callback = Qnil
                    /\ ext = "profiler" =>
                          /\ ~records'[tracked_classes[k]].states_alloc
                          /\ records'[tracked_classes[k]].object_states = NoStates
              /\ Memory_Profiler_Capture_tracking_p(k)' = Memory_Profiler_Capture_tracking_p(k)
              /\ CountFor(k)' = 0
              /\ ext = "profiler" => Memory_Profiler_Capture_statistics(k)' = 0

\* C33: clear() resets every existing record to new_count = 0, free_count = 0, no
\* callback and no stored per-object states, keeps the set of tracked types
\* unchanged, and afterwards count_for is 0 for every type and statistics report 0
\* tracked objects.
C33_ClearResets == [][ClearResets]_vars

\* clear() has returned on a capture whose callback had returned a state for an
\* allocation of a tracked type: the type is still tracked and its record is reset.
C33_Witness ==
    /\ ext = "profiler"
    /\ ret.op = "clear"
    /\ ret.n = nsteps
    /\ \E k \in Classes :
          /\ Memory_Profiler_Capture_tracking_p(k)
          /\ records[tracked_classes[k]].cleared
          /\ records[tracked_classes[k]].new_count = 0
          /\ records[tracked_classes[k]].callback = Qnil
          /\ Memory_Profiler_Capture_statistics(k) = 0
          /\ Memory_Profiler_Capture_count_for(k) = 0
          /\ \E i \in DOMAIN log :
                /\ log[i].klass = k
                /\ log[i].event = "newobj"
                /\ log[i].result \in States
                /\ obj_class[log[i].object] = k


\* ---------------------------------------------------------------------------
\* C40: untrack() and the events already queued.

\* untrack(type) takes the type out of tracked_classes and leaves the queues, their
\* items and every record as they are.
UntrackKeepsQueued ==
    UntrackCall =>
        /\ tracked_classes'[ret'.klass] = 0
        /\ UNCHANGED <<newobj_queue, freeobj_queue, records, job_pending>>

\* A call that process_queues makes in this step is for a queued item and goes to
\* the callback of the record the item was queued with, whatever tracked_classes
\* holds for the item's type by now.
DeliveredToItsRecord ==
    (Len(log') = Len(log) + 1 /\ log'[Len(log')].ctx = "process_queues") =>
        \E q \in {newobj_queue, freeobj_queue} : \E i \in DOMAIN q :
            /\ q[i].seq = log'[Len(log')].seq
            /\ q[i].klass = log'[Len(log')].klass
            /\ log'[Len(log')].cb = records[q[i].allocations].callback
            /\ log'[Len(log')].cb # Qnil

\* The events that were queued for a callback when the drain that returns in this
\* step started, and the length of the log then.
PendingAtStart ==
    IF DrainAtOnce THEN {Pending[i] : i \in DOMAIN Pending}
    ELSE {Top.pending[i] : i \in DOMAIN Top.pending}

LogAtStart == IF DrainAtOnce THEN Len(log) ELSE Top.log0

\* When a drain returns, every event that was queued for a callback when it
\* started has been delivered since.
DeliveredAtNextDrain ==
    DrainReturns =>
        \A s \in PendingAtStart :
            \E i \in DOMAIN log' : i > LogAtStart /\ log'[i].seq = s

\* An allocation of a type without entry in tracked_classes, observed by the
\* profiler's hook, creates a record with new_count = 1 and no callback.
AllocationCreatesRecord ==
    ( /\ HookStep
      /\ Hooked.event = "newobj"
      /\ tracked_classes[Hooked.klass] = 0 ) =>
        /\ tracked_classes'[Hooked.klass] = Len(records) + 1
        /\ Len(records') = Len(records) + 1
        /\ records'[Len(records')].new_count = 1
        /\ records'[Len(records')].free_count = 0
        /\ records'[Len(records')].callback = Qnil
        /\ ~records'[Len(records')].states_alloc
        /\ tracked_classes'[Hooked.klass] # 0
        /\ \A a \in DOMAIN records : records'[a] = records[a]
        /\ UNCHANGED <<newobj_queue, freeobj_queue>>

StopInCallback ==
    /\ ext = "profiler"
    /\ nsteps < MaxSteps
    /\ nsteps' = nsteps + 1
    /\ InCallback
    /\ IF running = 0
       THEN /\ ret' = Ret("stop", NoClass, Qnil, nsteps + 1, "returned", FALSE, 0)
            /\ UNCHANGED <<hooks, running, enabled, newobj_queue, freeobj_queue,
                           stack, log, observed>>
       ELSE /\ hooks' = 0
            /\ Memory_Profiler_Capture_process_queues(stack, Frame("stop", enabled), 0, log,
                   Ret("stop", NoClass, Qnil, nsteps + 1, "active", FALSE, 0))
            /\ observed' = Append(observed, DrainStarted)
    /\ UNCHANGED <<tvars, ext, obj_class, tracked_classes, records, job_pending>>

\* start() called by the callback that a drain is running.
StartInCallback ==
    /\ ext = "profiler"
    /\ nsteps < MaxSteps
    /\ nsteps' = nsteps + 1
    /\ InCallback
    /\ IF running = 1
       THEN /\ ret' = Ret("start", NoClass, Qnil, nsteps + 1, "returned", FALSE, 0)
            /\ UNCHANGED <<hooks, running, enabled>>
       ELSE /\ hooks' = hooks + 1
            /\ running' = 1
            /\ enabled' = 1
            /\ ret' = Ret("start", NoClass, Qnil, nsteps + 1, "returned", TRUE, 0)
    /\ UNCHANGED <<tvars, ext, obj_class, tracked_classes, records, newobj_queue,
                   freeobj_queue, job_pending, stack, log, observed>>

ReentrantNext ==
    \/ Next
    \/ StopInCallback
    \/ StartInCallback

\* The capture with callbacks that may call stop() and start().
ReentrantSpec == Init /\ [][ReentrantNext]_vars

\* C36: in every reachable state enabled = 1 implies running = 1, also when a user
\* callback calls stop() or start() from inside a drain.
C36_EnabledImpliesRunning == (ext = "profiler" /\ enabled = 1) => running = 1

\* C37: no enqueued event causes more than one callback invocation, also when the
\* drain is re-entered because a user callback calls stop() while the deferred job
\* is in the middle of a pass.
C37_AtMostOnce ==
    \A i \in DOMAIN log, j \in DOMAIN log :
        (i < j /\ log[i].ctx = "process_queues" /\ log[j].ctx = "process_queues") =>
            log[i].seq # log[j].seq

====
